---- MODULE Spec2Model ----
(***************************************************************************)
(* Governed analytics copilot: the semantic model and its join graph, the  *)
(* spec validator, the SQL generator, the SQL safety checker, the model    *)
(* loader and the ask() orchestration.                                     *)
(*                                                                         *)
(* SQL text is modelled at the level of lexemes: a text is a sequence of   *)
(* tokens (keywords, words, dotted references, numbers, symbols, newlines) *)
(* and every regular expression of the code is a matcher over that         *)
(* sequence.                                                               *)
(***************************************************************************)
EXTENDS Integers, Sequences, FiniteSets, TLC

\* ------------------------------------------------------------------------
\* Bounds
\* ------------------------------------------------------------------------
MaxJoins == 3

\* ------------------------------------------------------------------------
\* Generic helpers
\* ------------------------------------------------------------------------
SeqsUpTo(S, n) == UNION {[1..k -> S] : k \in 0..n}

Range(s) == {s[i] : i \in 1..Len(s)}

Min(a, b) == IF a <= b THEN a ELSE b

\* ------------------------------------------------------------------------
\* Tokens of SQL text
\* ------------------------------------------------------------------------
Tok(k, a, b, n) == [k |-> k, a |-> a, b |-> b, n |-> n]
Word(s) == Tok("word", s, "", 0)
Ref(q, c) == Tok("ref", q, c, 0)
Num(n) == Tok("num", "", "", n)
Sym(s) == Tok("sym", s, "", 0)
NL == Tok("nl", "", "", 0)
Blank == Tok("ws", "", "", 0)

\* what the regular expressions' \s matches
IsSpace(t) == t.k \in {"nl", "ws"}

\* ------------------------------------------------------------------------
\* Tables and join edges (semantic_loader.py)
\* ------------------------------------------------------------------------
Tables == {"fct_orders", "dim_users", "dim_date"}

AliasOf(t) ==
  CASE t = "fct_orders" -> "o"
    [] t = "dim_users" -> "u"
    [] t = "dim_date" -> "d"
    [] OTHER -> "x"

JoinEdge(l, r) ==
  [left |-> l, left_alias |-> AliasOf(l), right |-> r, right_alias |-> AliasOf(r),
   on |-> <<Ref(AliasOf(l), "user_id"), Sym("="), Ref(AliasOf(r), "user_id")>>,
   join_type |-> "left"]

AllEdges == {JoinEdge(l, r) : l \in Tables, r \in Tables}

JoinLists == SeqsUpTo(AllEdges, MaxJoins)

\* Optional list of edges: find_join_path returns a list or None.
NoPath == [found |-> FALSE, edges |-> <<>>]
SomePath(p) == [found |-> TRUE, edges |-> p]

\* ReachScan following every edge from left to right only
RECURSIVE ReachScanDirected(_, _, _, _, _)
ReachScanDirected(joins, i, current, visited, queue) ==
  IF i > Len(joins) THEN queue
  ELSE ReachScanDirected(joins, i + 1, current, visited,
                         IF joins[i].left = current /\ joins[i].right \notin visited
                         THEN Append(queue, joins[i].right) ELSE queue)

\* for j in self.joins: queue.append(...) of tables_reachable_from, from edge i on
RECURSIVE ReachScan(_, _, _, _, _)
ReachScan(joins, i, current, visited, queue) ==
  IF i > Len(joins) THEN queue
  ELSE LET j == joins[i]
           q1 == IF j.left = current /\ j.right \notin visited
                 THEN Append(queue, j.right) ELSE queue
           q2 == IF j.right = current /\ j.left \notin visited
                 THEN Append(q1, j.left) ELSE q1
       IN ReachScan(joins, i + 1, current, visited, q2)

\* one iteration of "while queue:" of tables_reachable_from
ReachIter(joins, st) ==
  LET current == Head(st.queue)
      rest == Tail(st.queue)
  IN IF current \in st.visited
     THEN [visited |-> st.visited, queue |-> rest]
     ELSE [visited |-> st.visited \cup {current},
           queue |-> ReachScan(joins, 1, current, st.visited \cup {current}, rest)]

RECURSIVE ReachLoop(_, _)
ReachLoop(joins, st) ==
  IF st.queue = <<>> THEN st.visited ELSE ReachLoop(joins, ReachIter(joins, st))

\* tables_reachable_from that leaves the start table out of its result
tables_reachable_from_NoStart(joins, start) ==
  ReachLoop(joins, [visited |-> {}, queue |-> <<start>>]) \ {start}

tables_reachable_from(joins, start) ==
  ReachLoop(joins, [visited |-> {}, queue |-> <<start>>])

\* The state of find_join_path's search: visited, queue and, once set, the result.
\* PathScan that leaves the loop over the joins after the first table it queues
RECURSIVE PathScanBreak(_, _, _, _, _, _)
PathScanBreak(joins, i, current, path, to_table, st) ==
  IF i > Len(joins) THEN st
  ELSE LET j == joins[i]
           other == IF j.left = current THEN j.right ELSE j.left
       IN IF (j.left = current \/ j.right = current) /\ other \notin st.visited
          THEN IF other = to_table
               THEN [st EXCEPT !.result = SomePath(Append(path, j)), !.done = TRUE]
               ELSE [st EXCEPT !.visited = @ \cup {other},
                               !.queue = Append(@, [tbl |-> other, path |-> Append(path, j)])]
          ELSE PathScanBreak(joins, i + 1, current, path, to_table, st)

\* for j in self.joins of find_join_path, from edge i on, for the popped (current, path)
RECURSIVE PathScan(_, _, _, _, _, _)
PathScan(joins, i, current, path, to_table, st) ==
  IF i > Len(joins) THEN st
  ELSE LET j == joins[i] IN
       IF j.left = current /\ j.right \notin st.visited
       THEN IF j.right = to_table
            THEN [st EXCEPT !.result = SomePath(Append(path, j)), !.done = TRUE]
            ELSE PathScan(joins, i + 1, current, path, to_table,
                          [st EXCEPT !.visited = @ \cup {j.right},
                                     !.queue = Append(@, [tbl |-> j.right, path |-> Append(path, j)])])
       ELSE IF j.right = current /\ j.left \notin st.visited
       THEN IF j.left = to_table
            THEN [st EXCEPT !.result = SomePath(Append(path, j)), !.done = TRUE]
            ELSE PathScan(joins, i + 1, current, path, to_table,
                          [st EXCEPT !.visited = @ \cup {j.left},
                                     !.queue = Append(@, [tbl |-> j.left, path |-> Append(path, j)])])
       ELSE PathScan(joins, i + 1, current, path, to_table, st)

\* while queue: ... of find_join_path
RECURSIVE PathLoop(_, _, _)
PathLoop(joins, to_table, st) ==
  IF st.done THEN st.result
  ELSE IF st.queue = <<>> THEN NoPath
  ELSE LET head == Head(st.queue)
           popped == [st EXCEPT !.queue = Tail(@)]
       IN PathLoop(joins, to_table,
                   PathScan(joins, 1, head.tbl, head.path, to_table, popped))

\* find_join_path without the early return for from_table == to_table
find_join_path_NoSameTable(joins, from_table, to_table) ==
  PathLoop(joins, to_table,
           [visited |-> {from_table},
            queue |-> <<[tbl |-> from_table, path |-> <<>>]>>,
            result |-> NoPath, done |-> FALSE])

find_join_path(joins, from_table, to_table) ==
  IF from_table = to_table THEN SomePath(<<>>)
  ELSE PathLoop(joins, to_table,
                [visited |-> {from_table},
                 queue |-> <<[tbl |-> from_table, path |-> <<>>]>>,
                 result |-> NoPath, done |-> FALSE])

\* Reference notion, independent of the code: the connected component of a table
\* in the join graph with every edge traversable in both directions.
Adjacent(joins, a, b) ==
  \E i \in 1..Len(joins) :
    \/ joins[i].left = a /\ joins[i].right = b
    \/ joins[i].left = b /\ joins[i].right = a

RECURSIVE Closure(_, _)
Closure(joins, S) ==
  LET S2 == S \cup {t \in Tables : \E s \in S : Adjacent(joins, s, t)}
  IN IF S2 = S THEN S ELSE Closure(joins, S2)

Component(joins, start) == Closure(joins, {start})


\* ------------------------------------------------------------------------
\* The semantic model (semantic_loader.py)
\* ------------------------------------------------------------------------
\* A string that stands for an absent key / None where the code tests truthiness.
None == ""

Metric(name, expression, base_table, filters, is_derived, components, cte) ==
  [name |-> name, expression |-> expression, base_table |-> base_table,
   alias |-> IF base_table = None THEN None ELSE AliasOf(base_table),
   filters |-> filters, is_derived |-> is_derived, components |-> components,
   cte |-> cte]

Dimension(name, column, table, grains, grain_expressions) ==
  [name |-> name, column |-> column, table |-> table, alias |-> AliasOf(table),
   grains |-> grains, grain_expressions |-> grain_expressions]

\* SecurityRules: the dataclass defaults
DefaultMaxRows == 200

SecurityRules(blocked_columns, blocked_schemas, read_only, max_rows) ==
  [blocked_columns |-> blocked_columns, blocked_schemas |-> blocked_schemas,
   read_only |-> read_only, max_rows |-> max_rows]

SemanticModel(version, metrics, dimensions, joins, security, allowed_tables) ==
  [version |-> version, metrics |-> metrics, dimensions |-> dimensions, joins |-> joins,
   security |-> security, allowed_tables |-> allowed_tables]

\* dict look-ups: metrics and dimensions are insertion-ordered dicts keyed by name
HasMetric(model, name) == \E i \in DOMAIN model.metrics : model.metrics[i].name = name

metric(model, name) ==
  model.metrics[CHOOSE i \in DOMAIN model.metrics : model.metrics[i].name = name]

HasDimension(model, name) ==
  \E i \in DOMAIN model.dimensions : model.dimensions[i].name = name

dimension(model, name) ==
  model.dimensions[CHOOSE i \in DOMAIN model.dimensions : model.dimensions[i].name = name]

get_metric_names(model) == [i \in DOMAIN model.metrics |-> model.metrics[i].name]

get_dimension_names(model) == [i \in DOMAIN model.dimensions |-> model.dimensions[i].name]

\* The catalogue the tests describe: revenue and orders on the orders fact table,
\* a derived conversion_proxy, country on the users table, date on the date table
\* with three grains, order_status on the fact table itself.
Schema == "marts"

QTable(t) == Ref(Schema, t)

CatalogMetrics ==
  << Metric("revenue",
            <<Word("SUM"), Sym("("), Ref("o", "amount"), Sym(")")>>,
            "fct_orders",
            << <<Ref("o", "status"), Sym("="), Sym("'"), Word("completed"), Sym("'")>> >>,
            FALSE, <<>>, <<>>),
     Metric("orders",
            <<Word("COUNT"), Sym("("), Word("DISTINCT"), Ref("o", "order_id"), Sym(")")>>,
            "fct_orders", <<>>, FALSE, <<>>, <<>>),
     Metric("conversion_proxy", <<>>, None, <<>>, TRUE, <<"orders", "active_users">>, <<>>) >>

Grains == <<"day", "week", "month">>

GrainExpr(g) == <<Word("DATE_TRUNC"), Sym("("), Sym("'"), Word(g), Sym("'"), Sym(","),
                  Ref("d", "date_day"), Sym(")")>>

NoGrainExpr == [g \in {} |-> <<>>]

CatalogDimensions ==
  << Dimension("date", <<Ref("d", "date_day")>>, "dim_date", Grains,
               [g \in Range(Grains) |-> GrainExpr(g)]),
     Dimension("country", <<Ref("u", "country")>>, "dim_users", <<>>, NoGrainExpr),
     Dimension("order_status", <<Ref("o", "status")>>, "fct_orders", <<>>, NoGrainExpr) >>

CatalogSecurity ==
  SecurityRules(<<"user_id", "order_id">>, <<"pg_catalog", "information_schema">>,
                TRUE, DefaultMaxRows)

CatalogModel(joins) ==
  SemanticModel(1, CatalogMetrics, CatalogDimensions, joins, CatalogSecurity,
                {QTable(t) : t \in Tables})

\* ------------------------------------------------------------------------
\* QuerySpec as the dict validate_spec receives (spec.py, validator.py)
\* ------------------------------------------------------------------------
\* A filter value: a string made of lexemes, or something that is not a string.
StrVal(toks) == [is_str |-> TRUE, toks |-> toks]
NonStrVal == [is_str |-> FALSE, toks |-> <<>>]

\* A filter entry: key -> value, where the value is a list of filter values or not.
Filter(key, is_list, vals) == [key |-> key, is_list |-> is_list, vals |-> vals]

\* time_range: None, or a text the code parses.
TimeRange(kind, n, unit) == [kind |-> kind, n |-> n, unit |-> unit]
NoRange == TimeRange("none", 0, "")

QuerySpec(m, dims, filters, time_grain, time_range, limit) ==
  [metric |-> m, dimensions |-> dims, filters |-> filters,
   time_grain |-> time_grain, time_range |-> time_range, limit |-> limit]

\* v.strip(): empty after stripping iff every lexeme is white space
IsBlank(toks) == \A i \in 1..Len(toks) : IsSpace(toks[i])

\* ------------------------------------------------------------------------
\* validate_spec (validator.py)
\* ------------------------------------------------------------------------
Msg(code, name, list, n) == [code |-> code, name |-> name, list |-> list, n |-> n]

\* Iterating a Python set of tables: the order is the hash order of the process.
IterSet(S, hash_order) == SelectSeq(hash_order, LAMBDA t : t \in S)

RECURSIVE FlatMap(_, _)
FlatMap(F(_), s) == IF s = <<>> THEN <<>> ELSE F(Head(s)) \o FlatMap(F, Tail(s))

\* step 4: one error per unknown requested dimension
DimensionErrors(spec, model) ==
  FlatMap(LAMBDA d : IF HasDimension(model, d) THEN <<>>
                     ELSE <<Msg("UnknownDimension", d, get_dimension_names(model), 0)>>,
          spec.dimensions)

\* step 5: one error per filter key that is no dimension
FilterKeyErrors(spec, model) ==
  FlatMap(LAMBDA f : IF HasDimension(model, f.key) THEN <<>>
                     ELSE <<Msg("UnknownFilterKey", f.key, get_dimension_names(model), 0)>>,
          spec.filters)

\* step 6: the grain check
GrainErrors(spec, model) ==
  IF spec.time_grain # None
     /\ HasDimension(model, "date")
     /\ dimension(model, "date").grains # <<>>
     /\ spec.time_grain \notin Range(dimension(model, "date").grains)
  THEN <<Msg("InvalidGrain", spec.time_grain, dimension(model, "date").grains, 0)>>
  ELSE <<>>

\* NeededTables without the tables of the filter keys
NeededTablesDimsOnly(spec, model, base_table) ==
  {dimension(model, d).table :
     d \in {x \in Range(spec.dimensions) :
              HasDimension(model, x) /\ dimension(model, x).table # base_table}}

\* the tables the requested dimensions and the filter keys need
NeededTables(spec, model, base_table) ==
  {dimension(model, d).table :
     d \in {x \in Range(spec.dimensions) \cup {f.key : f \in Range(spec.filters)} :
              HasDimension(model, x) /\ dimension(model, x).table # base_table}}

\* step 7: reachability and join path of every needed table
JoinPathErrors(spec, model, hash_order) ==
  LET base_table == metric(model, spec.metric).base_table
      reachable == tables_reachable_from(model.joins, base_table)
  IN IF base_table = None THEN <<>>
     ELSE FlatMap(LAMBDA tbl :
                    IF tbl \notin reachable
                    THEN <<Msg("TableNotReachable", tbl, <<base_table>>, 0)>>
                    ELSE IF ~find_join_path(model.joins, base_table, tbl).found
                    THEN <<Msg("NoJoinPath", tbl, <<base_table>>, 0)>>
                    ELSE <<>>,
                  IterSet(NeededTables(spec, model, base_table), hash_order))

\* step 8: the values of every filter
FilterValueErrors(spec) ==
  FlatMap(LAMBDA f :
            IF ~f.is_list THEN <<Msg("FilterNotList", f.key, <<>>, 0)>>
            ELSE IF f.vals = <<>> THEN <<Msg("FilterEmpty", f.key, <<>>, 0)>>
            ELSE FlatMap(LAMBDA v : IF ~v.is_str \/ IsBlank(v.toks)
                                    THEN <<Msg("FilterBadValue", f.key, v.toks, 0)>>
                                    ELSE <<>>,
                         f.vals),
          spec.filters)

\* step 9: the limit
LimitErrors(spec, model) ==
  IF spec.limit > model.security.max_rows
  THEN <<Msg("LimitExceeded", "", <<>>, spec.limit)>>
  ELSE <<>>

\* the checks of validate_spec after the metric checks (from line 57 on)
ValidateRest(spec, model, hash_order) ==
  LET naming == DimensionErrors(spec, model) \o FilterKeyErrors(spec, model)
                  \o GrainErrors(spec, model)
  IN IF naming # <<>> THEN naming
     ELSE JoinPathErrors(spec, model, hash_order) \o FilterValueErrors(spec)
            \o LimitErrors(spec, model)

\* validate_spec going on after a derived metric instead of returning
validate_spec_NoStopOnDerived(spec, model, hash_order) ==
  IF spec.metric = None THEN <<Msg("NoMetric", "", <<>>, 0)>>
  ELSE IF ~HasMetric(model, spec.metric)
  THEN <<Msg("UnknownMetric", spec.metric, get_metric_names(model), 0)>>
  ELSE (IF metric(model, spec.metric).is_derived
        THEN <<Msg("DerivedMetric", spec.metric, metric(model, spec.metric).components, 0)>>
        ELSE <<>>) \o ValidateRest(spec, model, hash_order)

validate_spec(spec, model, hash_order) ==
  IF spec.metric = None THEN <<Msg("NoMetric", "", <<>>, 0)>>
  ELSE IF ~HasMetric(model, spec.metric)
  THEN <<Msg("UnknownMetric", spec.metric, get_metric_names(model), 0)>>
  ELSE IF metric(model, spec.metric).is_derived
  THEN <<Msg("DerivedMetric", spec.metric, metric(model, spec.metric).components, 0)>>
  ELSE ValidateRest(spec, model, hash_order)


\* ------------------------------------------------------------------------
\* Dates and _resolve_time_range (sql_generator.py)
\* ------------------------------------------------------------------------
\* datetime.date: year, month, day and the proleptic ordinal (1 = 0001-01-01).
\* A date computed by timedelta arithmetic is known by its ordinal, one computed
\* by replace() by its year, month and day.
Date(y, m, d, ord) == [y |-> y, m |-> m, d |-> d, ord |-> ord]
NoDate == Date(0, 0, 0, 0)

\* datetime.MINYEAR and the largest timedelta, in days
MINYEAR == 1
MaxTimedeltaDays == 999999999

Resolved(status, start, end) == [status |-> status, start |-> start, end |-> end]

\* while month <= 0: month += 12; year -= 1
RECURSIVE MonthsBack(_, _)
MonthsBack(year, month) ==
  IF month <= 0 THEN MonthsBack(year - 1, month + 12) ELSE [year |-> year, month |-> month]

\* today.replace(year=y, month=m, day=1): ValueError for a year before MINYEAR
ReplaceDay1(today, y, m) ==
  IF y < MINYEAR THEN Resolved("ValueError", NoDate, NoDate)
  ELSE Resolved("range", Date(y, m, 1, 0), today)

\* today - timedelta(days=n): OverflowError when the timedelta or the date is out of range
MinusDays(today, n) ==
  IF n > MaxTimedeltaDays \/ today.ord - n < 1
  THEN Resolved("OverflowError", NoDate, NoDate)
  ELSE Resolved("range", Date(0, 0, 0, today.ord - n), today)

_resolve_time_range(time_range, today) ==
  CASE time_range.kind \in {"none", "empty"} -> Resolved("none", NoDate, NoDate)
    [] time_range.kind = "this month" -> Resolved("range", Date(today.y, today.m, 1, 0), today)
    [] time_range.kind \in {"this year", "year to date", "ytd"} ->
         Resolved("range", Date(today.y, 1, 1, 0), today)
    [] time_range.kind = "last" ->
         CASE time_range.unit = "day" -> MinusDays(today, time_range.n)
           [] time_range.unit = "week" -> MinusDays(today, 7 * time_range.n)
           [] time_range.unit = "month" ->
                LET ym == MonthsBack(today.y, today.m - time_range.n)
                IN ReplaceDay1(today, ym.year, ym.month)
           [] time_range.unit = "year" -> ReplaceDay1(today, today.y - time_range.n, 1)
           [] OTHER -> Resolved("none", NoDate, NoDate)
    [] OTHER -> Resolved("none", NoDate, NoDate)

\* date.isoformat() inside quotes
DateLiteral(dt) ==
  <<Sym("'"),
    IF dt.y # 0 THEN Tok("date", "ymd", "", dt.y * 10000 + dt.m * 100 + dt.d)
    ELSE Tok("date", "ordinal", "", dt.ord),
    Sym("'")>>


\* ------------------------------------------------------------------------
\* generate_sql (sql_generator.py)
\* ------------------------------------------------------------------------
\* sep.join(parts) for token sequences
RECURSIVE JoinWith(_, _)
JoinWith(sep, parts) ==
  IF parts = <<>> THEN <<>>
  ELSE IF Len(parts) = 1 THEN parts[1]
  ELSE parts[1] \o sep \o JoinWith(sep, Tail(parts))

\* f"{x}" of an optional text: None prints as the word None
Fmt(text) == IF text = <<>> THEN <<Word("None")>> ELSE text
FmtTable(t) == IF t = None THEN Word("None") ELSE QTable(t)
FmtName(n) == IF n = None THEN Word("None") ELSE Word(n)

\* str(int)
FmtInt(n) == IF n < 0 THEN <<Sym("-"), Num(0 - n)>> ELSE <<Num(n)>>

UsesGrain(spec, dim_name) == dim_name = "date" /\ spec.time_grain # None

\* dim.grain_expressions.get(spec.time_grain, dim.column)
GrainExprOf(spec, dim) ==
  IF spec.time_grain \in DOMAIN dim.grain_expressions
  THEN dim.grain_expressions[spec.time_grain] ELSE dim.column

KnownDims(spec, model) == SelectSeq(spec.dimensions, LAMBDA d : HasDimension(model, d))

\* group_parts: the expression of every requested, known dimension
GroupParts(spec, model) ==
  LET ds == KnownDims(spec, model)
  IN [i \in DOMAIN ds |->
        IF UsesGrain(spec, ds[i]) THEN GrainExprOf(spec, dimension(model, ds[i]))
        ELSE dimension(model, ds[i]).column]

\* select_parts: every dimension with its output name, the metric last
SelectParts(spec, model, m) ==
  LET ds == KnownDims(spec, model)
      gp == GroupParts(spec, model)
  IN Append([i \in DOMAIN ds |->
               gp[i] \o <<Word("AS"),
                          IF UsesGrain(spec, ds[i]) THEN Tok("word", "date_", spec.time_grain, 0)
                          ELSE Word(ds[i])>>],
            Fmt(m.expression) \o <<Word("AS"), Word(m.name)>>)

\* needed_tables: dimensions, filter keys and, for a time range, the date dimension
GenNeededTables(spec, model, m) ==
  {dimension(model, d).table :
     d \in {x \in Range(spec.dimensions) \cup {f.key : f \in Range(spec.filters)}
                  \cup (IF spec.time_range.kind \notin {"none", "empty"}
                           /\ "date" \notin Range(spec.dimensions)
                        THEN {"date"} ELSE {}) :
              HasDimension(model, x) /\ dimension(model, x).table # m.base_table}}

\* AppendNew without the membership test: every edge of every path is appended
AppendAll(used, path) == used \o path

\* for edge in path: if edge not in join_edges_used: join_edges_used.append(edge)
RECURSIVE AppendNew(_, _)
AppendNew(used, path) ==
  IF path = <<>> THEN used
  ELSE AppendNew(IF Head(path) \in Range(used) THEN used ELSE Append(used, Head(path)),
                 Tail(path))

\* for tbl in needed_tables: the edges of every path found, and the tables skipped
RECURSIVE CollectEdges(_, _, _, _)
CollectEdges(model, base_table, tbls, acc) ==
  IF tbls = <<>> THEN acc
  ELSE LET path == find_join_path(model.joins, base_table, Head(tbls))
       IN CollectEdges(model, base_table, Tail(tbls),
                       IF path.found
                       THEN [acc EXCEPT !.used = AppendNew(@, path.edges)]
                       ELSE [acc EXCEPT !.skipped = @ \cup {Head(tbls)}])

UpperType(join_type) ==
  CASE join_type = "left" -> "LEFT"
    [] join_type = "inner" -> "INNER"
    [] join_type = "right" -> "RIGHT"
    [] OTHER -> join_type

JoinClause(edge, target, alias) ==
  <<Word(UpperType(edge.join_type)), Word("JOIN"), QTable(target), Word("AS"), Word(alias),
    Word("ON")>> \o edge.on

\* for edge in join_edges_used: the JOIN text, the joined tables, the branches taken
RECURSIVE BuildJoins(_, _)
BuildJoins(edges, acc) ==
  IF edges = <<>> THEN acc
  ELSE LET edge == Head(edges)
           l_in == edge.left \in acc.joined
           r_in == edge.right \in acc.joined
       IN IF l_in /\ ~r_in
          THEN BuildJoins(Tail(edges),
                 [acc EXCEPT !.clauses = Append(@, JoinClause(edge, edge.right, edge.right_alias)),
                             !.targets = Append(@, edge.right),
                             !.joined = @ \cup {edge.right}])
          ELSE IF r_in /\ ~l_in
          THEN BuildJoins(Tail(edges),
                 [acc EXCEPT !.clauses = Append(@, JoinClause(edge, edge.left, edge.left_alias)),
                             !.targets = Append(@, edge.left),
                             !.joined = @ \cup {edge.left}])
          ELSE IF ~l_in /\ ~r_in
          THEN BuildJoins(Tail(edges),
                 [acc EXCEPT !.clauses = Append(@, JoinClause(edge, edge.right, edge.right_alias)),
                             !.targets = Append(@, edge.right),
                             !.joined = @ \cup {edge.right},
                             !.neither = TRUE])
          ELSE BuildJoins(Tail(edges), [acc EXCEPT !.both = TRUE])

\* v.replace("'", "''")
RECURSIVE EscapeQuotes(_)
EscapeQuotes(toks) ==
  IF toks = <<>> THEN <<>>
  ELSE (IF Head(toks) = Sym("'") THEN <<Sym("'"), Sym("'")>> ELSE <<Head(toks)>>)
         \o EscapeQuotes(Tail(toks))

Quoted(v) == <<Sym("'")>> \o EscapeQuotes(v.toks) \o <<Sym("'")>>

\* one WHERE part per spec filter on a known dimension
FilterPart(f, model) ==
  LET col == dimension(model, f.key).column
  IN IF Len(f.vals) = 1
     THEN col \o <<Sym("=")>> \o Quoted(f.vals[1])
     ELSE col \o <<Word("IN"), Sym("(")>>
            \o JoinWith(<<Sym(",")>>, [i \in DOMAIN f.vals |-> Quoted(f.vals[i])])
            \o <<Sym(")")>>

WhereParts(spec, model, m, date_range) ==
  LET fs == SelectSeq(spec.filters, LAMBDA f : HasDimension(model, f.key))
  IN m.filters
       \o [i \in DOMAIN fs |-> FilterPart(fs[i], model)]
       \o (IF date_range.status = "range" /\ HasDimension(model, "date")
           THEN << dimension(model, "date").column \o <<Sym(">=")>> \o DateLiteral(date_range.start),
                   dimension(model, "date").column \o <<Sym("<=")>> \o DateLiteral(date_range.end) >>
           ELSE <<>>)

FirstWord(text) == SelectSeq(text, LAMBDA t : ~IsSpace(t))[1]

\* the LIMIT value without the clamp
LimitValueUnclamped(spec, model) == spec.limit

\* the LIMIT value
LimitValue(spec, model) == Min(spec.limit, model.security.max_rows)

\* What generate_sql yields: the SQL text, or the exception raised; with it, what
\* the join loop did (tables skipped for want of a path, join targets, branches).
Generated(raised, sql, joins) == [raised |-> raised, sql |-> sql, joins |-> joins]

NoJoins == [used |-> <<>>, skipped |-> {}, clauses |-> <<>>, targets |-> <<>>,
            joined |-> {}, neither |-> FALSE, both |-> FALSE]

\* generate_sql from line 95 on, the metric being known
GenerateKnown(spec, model, hash_order, today) ==
    LET m == metric(model, spec.metric)
        select_parts == SelectParts(spec, model, m)
        group_parts == GroupParts(spec, model)
        collected == CollectEdges(model, m.base_table,
                                  IterSet(GenNeededTables(spec, model, m), hash_order),
                                  [NoJoins EXCEPT !.joined = {m.base_table}])
        built == BuildJoins(collected.used, collected)
        date_range == _resolve_time_range(spec.time_range, today)
        where_parts == WhereParts(spec, model, m, date_range)
        cte_join == <<Word("LEFT"), Word("JOIN"), FirstWord(m.cte), Word("AS"), Word("uo"),
                      Word("ON"), Ref(m.alias, "user_id"), Sym("="), Ref("uo", "user_id")>>
        join_clauses == IF m.cte # <<>> THEN <<cte_join>> \o built.clauses ELSE built.clauses
        sql_lines ==
          (IF m.cte # <<>> THEN << <<Word("WITH")>> \o m.cte >> ELSE <<>>)
          \o << <<Word("SELECT")>> >>
          \o << JoinWith(<<Sym(","), NL>>, select_parts) >>
          \o << <<Word("FROM"), FmtTable(m.base_table), Word("AS"), FmtName(m.alias)>> >>
          \o join_clauses
          \o (IF where_parts # <<>>
              THEN << <<Word("WHERE")>> \o JoinWith(<<NL, Word("AND")>>, where_parts) >>
              ELSE <<>>)
          \o (IF group_parts # <<>>
              THEN << <<Word("GROUP"), Word("BY")>> \o JoinWith(<<Sym(",")>>, group_parts) >>
              ELSE <<>>)
          \o << <<Word("ORDER"), Word("BY"), Word(m.name), Word("DESC")>> >>
          \o << <<Word("LIMIT")>> \o FmtInt(LimitValue(spec, model)) >>
    IN IF date_range.status \notin {"none", "range"}
       THEN Generated(date_range.status, <<>>, built)
       ELSE IF m.cte # <<>> /\ IsBlank(m.cte)
       THEN Generated("IndexError", <<>>, built)
       ELSE Generated("", JoinWith(<<NL>>, sql_lines), built)

\* generate_sql returning an empty text for an unknown metric instead of raising
generate_sql_NoRaise(spec, model, hash_order, today) ==
  IF ~HasMetric(model, spec.metric) THEN Generated("", <<>>, NoJoins)
  ELSE GenerateKnown(spec, model, hash_order, today)

generate_sql(spec, model, hash_order, today) ==
  IF ~HasMetric(model, spec.metric) THEN Generated("ValueError: Unknown metric", <<>>, NoJoins)
  ELSE GenerateKnown(spec, model, hash_order, today)


\* ------------------------------------------------------------------------
\* check_sql_safety (sql_safety.py)
\* ------------------------------------------------------------------------
\* str.lower() / re.IGNORECASE on the words that occur in the modelled texts
LowerCase ==
  [w \in {"SELECT", "WITH", "FROM", "JOIN", "AS", "LIMIT", "SUM", "COUNT", "AVG", "MIN",
          "MAX", "DROP", "Drop", "UPDATE", "DELETE", "CALL", "Call", "SET", "ROLE",
          "RESET", "USER_ID", "Order_ID", "PG_Catalog", "Revenue", "TABLE", "Show",
          "Emails", "Active"} |->
     CASE w = "SELECT" -> "select" [] w = "WITH" -> "with" [] w = "FROM" -> "from"
       [] w = "JOIN" -> "join" [] w = "AS" -> "as" [] w = "LIMIT" -> "limit"
       [] w = "SUM" -> "sum" [] w = "COUNT" -> "count" [] w = "AVG" -> "avg"
       [] w = "MIN" -> "min" [] w = "MAX" -> "max"
       [] w \in {"DROP", "Drop"} -> "drop" [] w = "UPDATE" -> "update"
       [] w = "DELETE" -> "delete" [] w \in {"CALL", "Call"} -> "call"
       [] w = "SET" -> "set" [] w = "ROLE" -> "role" [] w = "RESET" -> "reset"
       [] w = "USER_ID" -> "user_id" [] w = "Order_ID" -> "order_id"
       [] w = "PG_Catalog" -> "pg_catalog" [] w = "Revenue" -> "revenue"
       [] w = "TABLE" -> "table" [] w = "Show" -> "show" [] w = "Emails" -> "emails"
       [] w = "Active" -> "active"]

Lower(w) == IF w \in DOMAIN LowerCase THEN LowerCase[w] ELSE w

\* _DANGEROUS_KW, single words
DangerousWords ==
  {"drop", "alter", "truncate", "insert", "update", "delete", "merge", "grant", "revoke",
   "create", "replace", "execute", "exec", "call", "copy"}

AggregateWords == {"count", "sum", "avg", "min", "max"}

IsWord(t, w) == t.k = "word" /\ t.b = "" /\ Lower(t.a) = w

\* sql.strip()
RECURSIVE LStrip(_)
LStrip(text) == IF text # <<>> /\ IsSpace(Head(text)) THEN LStrip(Tail(text)) ELSE text

RECURSIVE RStrip(_)
RStrip(text) ==
  IF text # <<>> /\ IsSpace(text[Len(text)]) THEN RStrip(SubSeq(text, 1, Len(text) - 1))
  ELSE text

Strip(text) == RStrip(LStrip(text))

\* the position of the first token after position i that is not white space, 0 if none
RECURSIVE NextNonSpace(_, _)
NextNonSpace(text, i) ==
  IF i + 1 > Len(text) THEN 0
  ELSE IF ~IsSpace(text[i + 1]) THEN i + 1
  ELSE NextNonSpace(text, i + 1)

\* the words of a token that a \b...\b keyword pattern can match
WordsOf(t) ==
  IF t.k = "word" /\ t.b = "" THEN {Lower(t.a)}
  ELSE IF t.k = "ref" THEN {Lower(t.a), Lower(t.b)}
  ELSE {}

\* _DANGEROUS_KW.search: the matches, in text order
DangerousAt(text, i) ==
  \/ WordsOf(text[i]) \cap DangerousWords # {}
  \/ /\ IsWord(text[i], "set") \/ IsWord(text[i], "reset")
     /\ NextNonSpace(text, i) # 0
     /\ IsWord(text[NextNonSpace(text, i)], "role")

\* the keyword m.group(1).upper() reports for a match at position i
DangerousName(text, i) ==
  IF WordsOf(text[i]) \cap DangerousWords # {}
  THEN CHOOSE w \in WordsOf(text[i]) \cap DangerousWords :
         text[i].k = "ref" /\ Lower(text[i].a) \in DangerousWords => w = Lower(text[i].a)
  ELSE IF IsWord(text[i], "set") THEN "set role" ELSE "reset role"

\* the first position at which P holds, 0 if none
FirstIndex(text, P(_)) ==
  LET hits == {i \in 1..Len(text) : P(i)}
  IN IF hits = {} THEN 0 ELSE CHOOSE i \in hits : \A k \in hits : i <= k

\* sql_lower.find("\nfrom "), then sql_lower.find(" from "): where the projection
\* ends, 0 when neither text is found. The tokens of a line stand one space apart, so
\* a FROM is followed by a space unless the line ends behind it.
FromIndex(text) ==
  LET at_line_start(i) == /\ text[i].k = "nl" /\ i + 2 <= Len(text)
                          /\ IsWord(text[i + 1], "from") /\ text[i + 2].k # "nl"
      after_space(i) == /\ i > 1 /\ i + 1 <= Len(text) /\ IsWord(text[i], "from")
                        /\ text[i - 1].k # "nl" /\ text[i + 1].k # "nl"
      a == FirstIndex(text, at_line_start)
  IN IF a # 0 THEN a ELSE FirstIndex(text, after_space)

SelectSection(text) ==
  IF FromIndex(text) = 0 THEN text ELSE SubSeq(text, 1, FromIndex(text) - 1)

\* _agg_re.sub("__agg__", select_section): AGG ( ... up to the first ")" is masked
RECURSIVE MaskAggregates(_)
MaskAggregates(text) ==
  IF text = <<>> THEN <<>>
  ELSE LET open == NextNonSpace(text, 1)
           close == FirstIndex(text, LAMBDA i : i > open /\ text[i] = Sym(")"))
       IN IF /\ text[1].k = "word" /\ text[1].b = "" /\ Lower(text[1].a) \in AggregateWords
             /\ open # 0 /\ text[open] = Sym("(") /\ close # 0
          THEN <<Word("__agg__")>> \o MaskAggregates(SubSeq(text, close + 1, Len(text)))
          ELSE <<Head(text)>> \o MaskAggregates(Tail(text))

\* \b\w+\.col\b | \bAS\s+col\b
BlockedColumnIn(text, col) ==
  \E i \in 1..Len(text) :
    \/ text[i].k = "ref" /\ Lower(text[i].b) = col
    \/ /\ IsWord(text[i], "as")
       /\ i + 1 <= Len(text)
       /\ NextNonSpace(text, i) # 0
       /\ IsWord(text[NextNonSpace(text, i)], col)

\* _FROM_JOIN_RE.findall: the qualified names that follow FROM or JOIN
TableRefs(text) ==
  LET hit(i) == /\ IsWord(text[i], "from") \/ IsWord(text[i], "join")
                /\ NextNonSpace(text, i) # 0
                /\ text[NextNonSpace(text, i)].k = "ref"
      at == SelectSeq([i \in 1..Len(text) |-> i], hit)
  IN [n \in DOMAIN at |-> text[NextNonSpace(text, at[n])]]

\* _LIMIT_RE.search: the position of the number of the first LIMIT <digits>, 0 if none
LimitIndex(text) ==
  LET hit(i) == /\ IsWord(text[i], "limit")
                /\ NextNonSpace(text, i) # 0
                /\ text[NextNonSpace(text, i)].k = "num"
      i0 == FirstIndex(text, hit)
  IN IF i0 = 0 THEN 0 ELSE NextNonSpace(text, i0)

\* the nine checks, on the stripped text, its masked projection and its LIMIT
SafetyChecks(text, cleaned, lim, model) ==
     (IF text # <<>> /\ (IsWord(text[1], "select") \/ IsWord(text[1], "with"))
      THEN <<>> ELSE <<Msg("NotSelect", "", <<>>, 0)>>)
     \o (IF \E i \in 1..Len(text) : text[i] = Sym(";") /\ NextNonSpace(text, i) # 0
         THEN <<Msg("MultiStatement", "", <<>>, 0)>> ELSE <<>>)
     \o (IF \E i \in 1..Len(text) :
              /\ IsWord(text[i], "select") /\ NextNonSpace(text, i) # 0
              /\ text[NextNonSpace(text, i)] = Sym("*")
         THEN <<Msg("SelectStar", "", <<>>, 0)>> ELSE <<>>)
     \o (IF \E i \in 1..Len(text) : DangerousAt(text, i)
         THEN <<Msg("DangerousKeyword",
                    DangerousName(text, FirstIndex(text, LAMBDA i : DangerousAt(text, i))),
                    <<>>, 0)>>
         ELSE <<>>)
     \o (IF Sym("--") \in Range(text) THEN <<Msg("InlineComment", "", <<>>, 0)>> ELSE <<>>)
     \o (IF Sym("/*") \in Range(text) THEN <<Msg("BlockComment", "", <<>>, 0)>> ELSE <<>>)
     \o FlatMap(LAMBDA schema :
                  IF \E i \in 1..Len(text) : text[i].k = "ref" /\ Lower(text[i].a) = schema
                  THEN <<Msg("BlockedSchema", schema, <<>>, 0)>> ELSE <<>>,
                model.security.blocked_schemas)
     \o FlatMap(LAMBDA col :
                  IF BlockedColumnIn(cleaned, col)
                  THEN <<Msg("BlockedColumn", col, <<>>, 0)>> ELSE <<>>,
                model.security.blocked_columns)
     \o FlatMap(LAMBDA ref :
                  IF \E t \in model.allowed_tables :
                       Lower(t.a) = Lower(ref.a) /\ Lower(t.b) = Lower(ref.b)
                  THEN <<>> ELSE <<Msg("TableNotAllowed", ref.b, <<ref.a>>, 0)>>,
                TableRefs(text))
     \o (IF lim = 0 THEN <<Msg("MissingLimit", "", <<>>, model.security.max_rows)>>
         ELSE IF text[lim].n > model.security.max_rows
         THEN <<Msg("LimitTooHigh", "", <<>>, text[lim].n)>>
         ELSE <<>>)

SafetyOfStripped(text, model) ==
  SafetyChecks(text, MaskAggregates(SelectSection(text)), LimitIndex(text), model)

check_sql_safety(sql, model) == SafetyOfStripped(Strip(sql), model)


\* ------------------------------------------------------------------------
\* Loading the model (semantic_loader.py): the parsed YAML document is a dict of
\* sections, every entry a dict; a dict is its key set and the values of its keys
\* ------------------------------------------------------------------------
\* What a parse step yields: a value, or the exception raised.
Parsed(error, value) == [error |-> error, value |-> value]

NoValue == [none |-> TRUE]

\* raw[key] for each key in turn: the keys the dict lacks, and the KeyError of the first
Required(raw, keys) == SelectSeq(keys, LAMBDA k : k \notin raw.keys)

KeyError(raw, keys) == Parsed("KeyError", Required(raw, keys)[1])

\* [f(x) for x in xs]: the list, or the first exception
RECURSIVE ParseEach(_, _, _)
ParseEach(F(_), xs, acc) ==
  IF xs = <<>> THEN Parsed("", acc)
  ELSE LET one == F(Head(xs))
       IN IF one.error # "" THEN one
          ELSE ParseEach(F, Tail(xs), Append(acc, one.value))

\* {x["name"]: x for x in xs}: a later entry of the same name replaces the value
\* and keeps the place of the first
RECURSIVE DictByName(_, _)
DictByName(xs, acc) ==
  IF xs = <<>> THEN acc
  ELSE LET x == Head(xs)
           at == {i \in 1..Len(acc) : acc[i].name = x.name}
       IN DictByName(Tail(xs),
            IF at = {} THEN Append(acc, x)
            ELSE [acc EXCEPT ![CHOOSE i \in at : TRUE] = x])

_parse_metric(raw) ==
  IF "name" \notin raw.keys THEN Parsed("KeyError", "name")
  ELSE Parsed("",
    [name |-> raw.name,
     expression |-> IF "expression" \in raw.keys THEN raw.expression ELSE <<>>,
     base_table |-> IF "base_table" \in raw.keys THEN raw.base_table ELSE None,
     alias |-> IF "alias" \in raw.keys THEN raw.alias ELSE None,
     filters |-> IF "filters" \in raw.keys THEN raw.filters ELSE <<>>,
     is_derived |-> IF "is_derived" \in raw.keys THEN raw.is_derived ELSE FALSE,
     components |-> IF "components" \in raw.keys THEN raw.components ELSE <<>>,
     cte |-> IF "cte" \in raw.keys THEN raw.cte ELSE <<>>])

_parse_dimension(raw) ==
  IF Required(raw, <<"name", "column", "table", "alias">>) # <<>>
  THEN KeyError(raw, <<"name", "column", "table", "alias">>)
  ELSE Parsed("",
    [name |-> raw.name, column |-> raw.column, table |-> raw.table, alias |-> raw.alias,
     grains |-> IF "grains" \in raw.keys THEN raw.grains ELSE <<>>,
     grain_expressions |->
       IF "grain_expressions" \in raw.keys THEN raw.grain_expressions ELSE NoGrainExpr])

_parse_join(raw) ==
  IF Required(raw, <<"left", "right", "on">>) # <<>>
  THEN KeyError(raw, <<"left", "right", "on">>)
  ELSE Parsed("",
    [left |-> raw.left,
     left_alias |-> IF "left_alias" \in raw.keys THEN raw.left_alias ELSE "",
     right |-> raw.right,
     right_alias |-> IF "right_alias" \in raw.keys THEN raw.right_alias ELSE "",
     on |-> raw.on,
     join_type |-> IF "type" \in raw.keys THEN raw.type ELSE "left"])

LowerAll(names) == [i \in 1..Len(names) |-> Lower(names[i])]

\* `if not raw`: the section is absent, null or an empty mapping
_parse_security(raw) ==
  IF raw.is_none \/ raw.keys = {} THEN SecurityRules(<<>>, <<>>, TRUE, DefaultMaxRows)
  ELSE SecurityRules(
         IF "blocked_columns" \in raw.keys THEN LowerAll(raw.blocked_columns) ELSE <<>>,
         IF "blocked_schemas" \in raw.keys THEN LowerAll(raw.blocked_schemas) ELSE <<>>,
         IF "read_only" \in raw.keys THEN raw.read_only ELSE TRUE,
         IF "max_rows" \in raw.keys THEN raw.max_rows ELSE DefaultMaxRows)

NoSecurity ==
  [is_none |-> TRUE, keys |-> {}, blocked_columns |-> <<>>, blocked_schemas |-> <<>>,
   read_only |-> TRUE, max_rows |-> 0]

\* d["name"] is read before _parse_dimension(d) is called
NamedDimension(raw) ==
  IF "name" \notin raw.keys THEN Parsed("KeyError", "name") ELSE _parse_dimension(raw)

_parse_model(raw_yaml) ==
  IF raw_yaml.is_none THEN Parsed("AttributeError", "get")
  ELSE
    LET has(k) == k \in raw_yaml.keys
        metrics == ParseEach(_parse_metric, IF has("metrics") THEN raw_yaml.metrics ELSE <<>>,
                             <<>>)
        dimensions == ParseEach(NamedDimension,
                                IF has("dimensions") THEN raw_yaml.dimensions ELSE <<>>, <<>>)
        joins == ParseEach(_parse_join, IF has("joins") THEN raw_yaml.joins ELSE <<>>, <<>>)
        security == _parse_security(IF has("security") THEN raw_yaml.security
                                    ELSE NoSecurity)
        allowed == IF has("allowed_tables") THEN Range(raw_yaml.allowed_tables) ELSE {}
    IN IF metrics.error # "" THEN metrics
       ELSE IF dimensions.error # "" THEN dimensions
       ELSE IF joins.error # "" THEN joins
       ELSE Parsed("",
              SemanticModel(IF has("version") THEN raw_yaml.version ELSE 1,
                            DictByName(metrics.value, <<>>),
                            DictByName(dimensions.value, <<>>),
                            joins.value, security, allowed))

\* ------------------------------------------------------------------------
\* The collaborators of ask() (service.py, rbac.py, cost_guard.py, cache.py)
\* ------------------------------------------------------------------------
\* A question is its words and symbols in order, one space between neighbours.
LowerWords(question) == [i \in 1..Len(question) |-> Lower(question[i])]

IsSymbol(w) == w \in {"*", ";"}

\* _INJECTION_RE on such a text. Its alternative ;\s*SELECT needs a word character
\* right before the semicolon and the alternative with backslashes needs backslashes:
\* neither occurs in a text of space-separated words.
InjectionWords ==
  {"truncate", "pg_catalog", "information_schema", "pg_tables", "pg_roles", "xp_cmdshell"}

InjectionPairs ==
  { <<"drop", "table">>, <<"alter", "table">>, <<"delete", "from">>, <<"insert", "into">>,
    <<"create", "table">>, <<"union", "select">> }

InjectionLeads == {"grant", "revoke", "exec", "execute", "copy"}

InjectionFound(q) ==
  \E i \in 1..Len(q) :
    \/ q[i] \in InjectionWords
    \/ i < Len(q) /\ <<q[i], q[i + 1]>> \in InjectionPairs
    \/ i < Len(q) /\ q[i] \in InjectionLeads /\ ~IsSymbol(q[i + 1])
    \/ i + 1 < Len(q) /\ q[i] = "update" /\ ~IsSymbol(q[i + 1]) /\ q[i + 2] = "set"
    \/ i + 1 < Len(q) /\ q[i] = "select" /\ q[i + 1] = "*" /\ q[i + 2] = "from"

\* _PII_RE
PiiWords ==
  {"email", "emails", "password", "passwords", "phonenumber", "phonenumbers", "ssn",
   "socialsecurity", "creditcard", "address", "addresses", "salary", "salaries",
   "dateofbirth", "dob"}

PiiPairs ==
  { <<"phone", "number">>, <<"phone", "numbers">>, <<"social", "security">>,
    <<"credit", "card">>, <<"dateof", "birth">>, <<"date", "ofbirth">> }

PiiFound(q) ==
  \E i \in 1..Len(q) :
    \/ q[i] \in PiiWords
    \/ i < Len(q) /\ <<q[i], q[i + 1]>> \in PiiPairs
    \/ i + 1 < Len(q) /\ q[i] = "date" /\ q[i + 1] = "of" /\ q[i + 2] = "birth"

_check_input_safety(question) ==
  LET q == LowerWords(question)
  IN (IF InjectionFound(q) THEN <<Msg("Injection", "", <<>>, 0)>> ELSE <<>>)
       \o (IF PiiFound(q) THEN <<Msg("Pii", "", <<>>, 0)>> ELSE <<>>)

\* rbac.py: a role
Role(name, allowed_metrics, allowed_dimensions, wildcard_metrics, wildcard_dimensions) ==
  [name |-> name, allowed_metrics |-> allowed_metrics,
   allowed_dimensions |-> allowed_dimensions, wildcard_metrics |-> wildcard_metrics,
   wildcard_dimensions |-> wildcard_dimensions]

\* check_rbac without the open mode: with no roles defined every role is unknown
check_rbac_NoOpenMode(role_name, metric_name, dimensions, roles) ==
  IF role_name = None THEN <<>>
  ELSE IF \A i \in 1..Len(roles) : roles[i].name # role_name
  THEN <<Msg("UnknownRole", role_name, <<>>, 0)>>
  ELSE <<>>

check_rbac(role_name, metric_name, dimensions, roles) ==
  IF role_name = None THEN <<>>
  ELSE IF roles = <<>> THEN <<>>
  ELSE LET at == {i \in 1..Len(roles) : roles[i].name = role_name}
       IN IF at = {} THEN <<Msg("UnknownRole", role_name, <<>>, 0)>>
          ELSE LET role == roles[CHOOSE i \in at : TRUE]
               IN (IF ~role.wildcard_metrics /\ metric_name \notin Range(role.allowed_metrics)
                   THEN <<Msg("RoleMetric", metric_name, role.allowed_metrics, 0)>>
                   ELSE <<>>)
                  \o (IF role.wildcard_dimensions THEN <<>>
                      ELSE FlatMap(LAMBDA dim :
                                     IF dim \notin Range(role.allowed_dimensions)
                                     THEN <<Msg("RoleDimension", dim,
                                                role.allowed_dimensions, 0)>>
                                     ELSE <<>>,
                                   dimensions))

\* cost_guard.py: the thresholds
MAX_JOINS == 4
MAX_DIMENSIONS == 5
MAX_FILTERS == 6
MAX_LIMIT == 200
CostThreshold == 85

RECURSIVE SumOf(_, _)
SumOf(F(_), s) == IF s = <<>> THEN 0 ELSE F(Head(s)) + SumOf(F, Tail(s))

\* re.findall(r"\bJOIN\b", sql, re.IGNORECASE)
JoinCount(sql) == Len(SelectSeq(sql, LAMBDA t : IsWord(t, "join")))

CostEstimate(estimated_score, warnings) ==
  [estimated_score |-> estimated_score, warnings |-> warnings]

estimate_query_cost(spec, sql) ==
  LET dim_count == Len(spec.dimensions)
      join_count == JoinCount(sql)
      filter_count == SumOf(LAMBDA f : IF f.is_list THEN Len(f.vals) ELSE 1, spec.filters)
      has_time_range == spec.time_range # NoRange
      date_scan == "date" \in Range(spec.dimensions) /\ ~has_time_range
      has_cte == sql # <<>> /\ ~IsBlank(sql) /\ IsWord(FirstWord(sql), "with")
      over_limit == spec.limit > MAX_LIMIT
      score == dim_count * 8 + join_count * 12
                 + (IF filter_count > 2 THEN (filter_count - 2) * 3 ELSE 0)
                 + (IF date_scan THEN 20 ELSE 0)
                 + (IF has_cte THEN 15 ELSE 0)
                 + (IF over_limit THEN 10 ELSE 0)
      warnings ==
        (IF dim_count > MAX_DIMENSIONS THEN <<"dimensions">> ELSE <<>>)
          \o (IF join_count > MAX_JOINS THEN <<"joins">> ELSE <<>>)
          \o (IF filter_count > MAX_FILTERS THEN <<"filters">> ELSE <<>>)
          \o (IF date_scan THEN <<"time_range">> ELSE <<>>)
          \o (IF over_limit THEN <<"limit">> ELSE <<>>)
  IN CostEstimate(Min(score, 100), warnings)

block_if_too_expensive(estimate) ==
  IF estimate.estimated_score >= CostThreshold
  THEN <<Msg("TooExpensive", "", <<>>, estimate.estimated_score)>>
  ELSE <<>>

\* service.py: the result of a call
CopilotResult(spec, sql, rows, validation_errors, safety_errors, rbac_errors,
              cost_warnings, cost_score, cached) ==
  [spec |-> spec, sql |-> sql, rows |-> rows, validation_errors |-> validation_errors,
   safety_errors |-> safety_errors, rbac_errors |-> rbac_errors,
   cost_warnings |-> cost_warnings, cost_score |-> cost_score, cached |-> cached]

success(result) ==
  /\ result.validation_errors = <<>>
  /\ result.safety_errors = <<>>
  /\ result.rbac_errors = <<>>

\* cache.py: the store is an insertion-ordered dict of entries; a cached value is a
\* reference to the result object, here its place in the heap of result objects
DEFAULT_TTL_SECONDS == 300
DEFAULT_MAX_SIZE == 256

\* str.strip() on a question: the whitespace at both ends goes
StripWords(question) ==
  LET inner == {i \in 1..Len(question) : question[i] # " "}
  IN IF inner = {} THEN <<>>
     ELSE SubSeq(question,
                 CHOOSE i \in inner : \A k \in inner : i <= k,
                 CHOOSE i \in inner : \A k \in inner : i >= k)

\* str(execute) in the f-string
FmtBool(b) == IF b THEN "True" ELSE "False"

\* a key that leaves the execute flag out
_make_key_NoExecute(question, mode, execute) ==
  LowerWords(StripWords(question)) \o <<"|", mode, "|", FmtBool(TRUE)>>

\* f"{question.strip().lower()}|{mode}|{execute}"; the sha256 of the text is taken
\* to be free of collisions, so the text itself is the key
_make_key(question, mode, execute) ==
  LowerWords(StripWords(question)) \o <<"|", mode, "|", FmtBool(execute)>>

CacheEntry(key, value, created_at, ttl, hit_count) ==
  [key |-> key, value |-> value, created_at |-> created_at, ttl |-> ttl,
   hit_count |-> hit_count]

Without(s, i) == [k \in 1..(Len(s) - 1) |-> IF k < i THEN s[k] ELSE s[k + 1]]

CacheLookup(store, value) == [store |-> store, value |-> value]

\* CacheEntry.is_expired at the time of the call
is_expired(entry, time) == (time - entry.created_at) > entry.ttl

\* QueryCache.get that hands out an entry whatever its age
cache_get_NoExpiry(store, question, mode, execute, time) ==
  LET key == _make_key(question, mode, execute)
      at == {i \in 1..Len(store) : store[i].key = key}
  IN IF at = {} THEN CacheLookup(store, 0)
     ELSE LET i == CHOOSE k \in at : TRUE
          IN CacheLookup([store EXCEPT ![i].hit_count = @ + 1], store[i].value)

\* QueryCache.get: value 0 stands for None
cache_get(store, question, mode, execute, time) ==
  LET key == _make_key(question, mode, execute)
      at == {i \in 1..Len(store) : store[i].key = key}
  IN IF at = {} THEN CacheLookup(store, 0)
     ELSE LET i == CHOOSE k \in at : TRUE
          IN IF is_expired(store[i], time)
             THEN CacheLookup(Without(store, i), 0)
             ELSE CacheLookup([store EXCEPT ![i].hit_count = @ + 1], store[i].value)

\* min(self._store, key=created_at): the place of the first of the oldest
OldestIndex(store) ==
  CHOOSE i \in 1..Len(store) :
    /\ \A k \in 1..Len(store) : store[i].created_at <= store[k].created_at
    /\ \A k \in 1..(i - 1) : store[k].created_at > store[i].created_at

_evict_oldest(store) ==
  IF store = <<>> THEN store ELSE Without(store, OldestIndex(store))

InStore(store, key) == \E i \in 1..Len(store) : store[i].key = key

\* put, first half: `if len(self._store) >= self._max_size and key not in self._store`
put_evict(store, key, max_size) ==
  IF Len(store) >= max_size /\ ~InStore(store, key) THEN _evict_oldest(store) ELSE store

\* put, second half: self._store[key] = CacheEntry(...); a present key keeps its place
put_store(store, key, value, time, ttl) ==
  LET entry == CacheEntry(key, value, time, ttl, 0)
  IN IF InStore(store, key)
     THEN [store EXCEPT ![CHOOSE i \in 1..Len(store) : store[i].key = key] = entry]
     ELSE Append(store, entry)

\* QueryCache.put of the process-wide cache, which has the default ttl
cache_put(store, question, mode, execute, value, time, max_size) ==
  LET key == _make_key(question, mode, execute)
  IN put_store(put_evict(store, key, max_size), key, value, time, DEFAULT_TTL_SECONDS)

\* QueryCache.invalidate: no question flushes all; the value is the number removed
cache_invalidate(store, all, question, mode, execute) ==
  LET key == _make_key(question, mode, execute)
  IN IF all THEN CacheLookup(<<>>, Len(store))
     ELSE IF InStore(store, key)
     THEN CacheLookup(SelectSeq(store, LAMBDA e : e.key # key), 1)
     ELSE CacheLookup(store, 0)

\* QueryCache.cleanup_expired
cleanup_expired(store, time) ==
  LET kept == SelectSeq(store, LAMBDA e : ~is_expired(e, time))
  IN CacheLookup(kept, Len(store) - Len(kept))

\* ------------------------------------------------------------------------
\* State
\* ------------------------------------------------------------------------
VARIABLES
  joins,        \* the join list of the graph searched
  from_table,   \* the start table of the search
  to_table,     \* the target table of find_join_path
  visited,      \* tables_reachable_from: its visited set
  queue,        \* tables_reachable_from: its queue
  reach_pc,     \* tables_reachable_from: "idle", "loop" or "done"
  path,         \* what find_join_path returned
  path_pc,      \* "idle" or "done"
  model,        \* the SemanticModel in use
  spec,         \* the QuerySpec (as a dict) of the request
  hash_order,   \* the iteration order of sets of tables in this process
  today,        \* date.today()
  v_errors,     \* what validate_spec returned
  generated,    \* what generate_sql returned or raised
  s_errors,     \* what check_sql_safety returned
  core_pc,      \* "idle", "input", "validated", "generated" or "audited"
  raw_yaml,     \* the document yaml.safe_load reads from the model file
  loaded,       \* what the last load_semantic_model call returned or raised
  lru_cache,    \* the memo of load_semantic_model
  load_calls,   \* the calls of load_semantic_model so far
  request,      \* ask(): its arguments
  ask_pc,       \* ask(): where the call is
  ask_count,    \* the calls of ask() so far
  now,          \* time.time()
  rbac_errors,  \* ask(): its local rbac_errors
  sql,          \* ask(): its local sql
  rows,         \* ask(): its local rows
  cost,         \* ask(): cost_score and cost_warnings
  trace,        \* the functions ask() has called for this request, in order
  executor_calls, \* the statements execute_readonly was called with
  query_log,    \* the rows of the audit table
  cache_store,  \* QueryCache._store
  heap,         \* the CopilotResult objects made so far
  ret,          \* what the call returned (a reference to a result) or raised
  history,      \* the calls of the library functions made so far, with results
  names,        \* what the module's get_metric_names() returned
  roles,        \* check_rbac: the role definitions passed
  role_name,    \* check_rbac: the role passed
  cache_cfg,    \* QueryCache._ttl and QueryCache._max_size
  lock,         \* QueryCache._lock: 0 when free, else the thread holding it
  threads,      \* what each thread using the cache is doing
  last_put      \* the completed puts in order, each with its time and whether its entry
                \* was invalidated or evicted since

graph_vars == <<joins, from_table, to_table, visited, queue, reach_pc, path, path_pc>>

core_vars == <<model, spec, hash_order, today, v_errors, generated, s_errors, core_pc>>

load_vars == <<raw_yaml, loaded, lru_cache, load_calls>>

ask_vars == <<request, ask_pc, ask_count, now, rbac_errors, sql, rows, cost, trace,
              executor_calls, query_log, cache_store, heap, ret>>

lib_vars == <<history, names, roles, role_name, cache_cfg, lock, threads, last_put>>

vars == <<graph_vars, core_vars,
               load_vars, ask_vars, lib_vars>>

LibIdle ==
  /\ history = <<>>
  /\ names = <<>>
  /\ roles = <<>>
  /\ role_name = ""
  /\ cache_cfg = [ttl |-> DEFAULT_TTL_SECONDS, max_size |-> DEFAULT_MAX_SIZE]
  /\ lock = 0
  /\ threads = <<>>
  /\ last_put = <<>>

GraphIdle ==
  /\ joins = <<>>
  /\ from_table = "fct_orders"
  /\ to_table = "fct_orders"
  /\ visited = {}
  /\ queue = <<>>
  /\ reach_pc = "idle"
  /\ path = NoPath
  /\ path_pc = "idle"

Today == Date(2026, 11, 6, 739926)

DefaultOrder == <<"fct_orders", "dim_users", "dim_date">>

DefaultSpec == QuerySpec("revenue", <<>>, <<>>, None, NoRange, DefaultMaxRows)

CoreIdle ==
  /\ model = CatalogModel(<<>>)
  /\ spec = DefaultSpec
  /\ hash_order = DefaultOrder
  /\ today = Today
  /\ v_errors = <<>>
  /\ generated = Generated("", <<>>, NoJoins)
  /\ s_errors = <<>>
  /\ core_pc = "idle"

\* the whole catalogue as the YAML document holds it
Sections == {"metrics", "dimensions", "joins", "security", "allowed_tables"}

RawMetric(m, keys) == [k \in DOMAIN m \cup {"keys"} |-> IF k = "keys" THEN keys ELSE m[k]]

MetricKeys ==
  {"name", "expression", "base_table", "alias", "filters", "is_derived", "components"}

RawDimension(d, keys) == [k \in DOMAIN d \cup {"keys"} |-> IF k = "keys" THEN keys ELSE d[k]]

DimensionKeys == {"name", "column", "table", "alias", "grains", "grain_expressions"}

RawJoin(edge, keys) ==
  [keys |-> keys, left |-> edge.left, left_alias |-> edge.left_alias,
   right |-> edge.right, right_alias |-> edge.right_alias, on |-> edge.on,
   type |-> edge.join_type]

JoinKeys == {"left", "left_alias", "right", "right_alias", "on", "type"}

RawSecurity(keys, blocked_columns, max_rows) ==
  [is_none |-> FALSE, keys |-> keys, blocked_columns |-> blocked_columns,
   blocked_schemas |-> <<"PG_Catalog", "information_schema">>, read_only |-> TRUE,
   max_rows |-> max_rows]

SecurityKeys == {"blocked_columns", "blocked_schemas", "read_only", "max_rows"}

RawModel(keys, metrics, dimensions, raw_joins, security) ==
  [is_none |-> FALSE, keys |-> keys, version |-> 1, metrics |-> metrics,
   dimensions |-> dimensions, joins |-> raw_joins, security |-> security,
   allowed_tables |-> <<QTable("fct_orders"), QTable("dim_users"), QTable("dim_date")>>]

\* an empty file: yaml.safe_load returns None
EmptyFile == [RawModel({}, <<>>, <<>>, <<>>, NoSecurity) EXCEPT !.is_none = TRUE]

RawMetrics == [i \in 1..Len(CatalogMetrics) |-> RawMetric(CatalogMetrics[i], MetricKeys)]

RawDimensions ==
  [i \in 1..Len(CatalogDimensions) |-> RawDimension(CatalogDimensions[i], DimensionKeys)]

RawJoins(edges) == [i \in 1..Len(edges) |-> RawJoin(edges[i], JoinKeys)]

CatalogRawSecurity == RawSecurity(SecurityKeys, <<"USER_ID", "Order_ID">>, DefaultMaxRows)

CatalogSource(edges) ==
  RawModel(Sections \cup {"version"}, RawMetrics, RawDimensions, RawJoins(edges),
           CatalogRawSecurity)

\* the catalogue with the metric and the dimension the service tests ask for:
\* active_users on the orders fact table, category on a table of the join graph
ServiceMetrics ==
  CatalogMetrics
    \o << Metric("active_users",
                 <<Word("COUNT"), Sym("("), Word("DISTINCT"), Ref("o", "customer_id"),
                   Sym(")")>>,
                 "fct_orders", <<>>, FALSE, <<>>, <<>>) >>

ServiceDimensions ==
  CatalogDimensions
    \o << Dimension("category", <<Ref("u", "category")>>, "dim_users", <<>>, NoGrainExpr) >>

ServiceSource(edges) ==
  RawModel(Sections \cup {"version"},
           [i \in 1..Len(ServiceMetrics) |-> RawMetric(ServiceMetrics[i], MetricKeys)],
           [i \in 1..Len(ServiceDimensions) |->
              RawDimension(ServiceDimensions[i], DimensionKeys)],
           RawJoins(edges), CatalogRawSecurity)

\* what load_semantic_model gave: the model or the exception, and the document read
Loaded(parsed, source) == [error |-> parsed.error, value |-> parsed.value, source |-> source]

NotLoaded == Loaded(Parsed("", NoValue), NoValue)

LoadIdle ==
  /\ raw_yaml = CatalogSource(<<>>)
  /\ loaded = NotLoaded
  /\ lru_cache = NotLoaded
  /\ load_calls = 0

\* ask(): its arguments; role None when the caller gives none
Request(question, mode, execute, role) ==
  [question |-> question, mode |-> mode, execute |-> execute, role |-> role]

NoRequest == Request(<<>>, "mock", FALSE, None)

NoCost == CostEstimate(0, <<>>)

\* what a call gave back: a reference into the heap, or the exception it raised
Returned(kind, ref, exc) == [kind |-> kind, ref |-> ref, exc |-> exc]

NoReturn == Returned("none", 0, "")

AskLocalsIdle ==
  /\ rbac_errors = <<>>
  /\ sql = <<>>
  /\ rows = <<>>
  /\ cost = NoCost
  /\ trace = <<>>
  /\ ret = NoReturn

AskIdle ==
  /\ request = NoRequest
  /\ ask_pc = "idle"
  /\ ask_count = 0
  /\ now = 0
  /\ AskLocalsIdle
  /\ executor_calls = <<>>
  /\ query_log = <<>>
  /\ cache_store = <<>>
  /\ heap = <<>>

\* ------------------------------------------------------------------------
\* tables_reachable_from, one loop iteration per step
\* ------------------------------------------------------------------------
InitReach ==
  /\ LibIdle
  /\ joins \in JoinLists
  /\ from_table \in Tables
  /\ to_table = from_table
  /\ visited = {}
  /\ queue = <<>>
  /\ reach_pc = "idle"
  /\ path = NoPath
  /\ path_pc = "idle"
  /\ CoreIdle
  /\ LoadIdle
  /\ AskIdle

\* visited = set(); queue = [start]
ReachCall ==
  /\ reach_pc = "idle"
  /\ visited' = {}
  /\ queue' = <<from_table>>
  /\ reach_pc' = "loop"
  /\ UNCHANGED <<joins, from_table, to_table, path, path_pc, core_vars, lib_vars,
               load_vars, ask_vars>>

\* while queue: current = queue.pop(0); ...
ReachPop ==
  /\ reach_pc = "loop"
  /\ queue # <<>>
  /\ LET st == ReachIter(joins, [visited |-> visited, queue |-> queue])
     IN visited' = st.visited /\ queue' = st.queue
  /\ UNCHANGED <<joins, from_table, to_table, reach_pc, path, path_pc, core_vars, lib_vars,
               load_vars, ask_vars>>

\* return visited
ReachReturn ==
  /\ reach_pc = "loop"
  /\ queue = <<>>
  /\ reach_pc' = "done"
  /\ UNCHANGED <<joins, from_table, to_table, visited, queue, path, path_pc, core_vars, lib_vars,
               load_vars, ask_vars>>

NextReach == ReachCall \/ ReachPop \/ ReachReturn

\* The loop is sequential code: an enabled step is taken.
SpecReach == InitReach /\ [][NextReach]_vars /\ WF_vars(NextReach)

\* ------------------------------------------------------------------------
\* find_join_path and tables_reachable_from, applied to every graph and pair of tables
\* ------------------------------------------------------------------------
InitPath ==
  /\ LibIdle
  /\ joins \in JoinLists
  /\ from_table \in Tables
  /\ to_table \in Tables
  /\ visited = {}
  /\ queue = <<>>
  /\ reach_pc = "idle"
  /\ path = NoPath
  /\ path_pc = "idle"
  /\ CoreIdle
  /\ LoadIdle
  /\ AskIdle

CallFindJoinPath ==
  /\ path_pc = "idle"
  /\ path' = find_join_path(joins, from_table, to_table)
  /\ path_pc' = "done"
  /\ UNCHANGED <<joins, from_table, to_table, visited, queue, reach_pc, core_vars, lib_vars,
               load_vars, ask_vars>>

\* reachable = model.tables_reachable_from(base_table)
CallTablesReachableFrom ==
  /\ reach_pc = "idle"
  /\ visited' = tables_reachable_from(joins, from_table)
  /\ reach_pc' = "done"
  /\ UNCHANGED <<joins, from_table, to_table, queue, path, path_pc, core_vars, lib_vars,
               load_vars, ask_vars>>

NextPath == CallFindJoinPath \/ CallTablesReachableFrom

SpecPath == InitPath /\ [][NextPath]_vars

\* ------------------------------------------------------------------------
\* validate_spec, generate_sql and check_sql_safety applied to bounded inputs
\* ------------------------------------------------------------------------
MaxModelJoins == 2
MaxDims == 2

ModelJoinLists == SeqsUpTo(AllEdges, MaxModelJoins)

\* fct_orders joined to both dimension tables
StarJoins == <<JoinEdge("fct_orders", "dim_users"), JoinEdge("fct_orders", "dim_date")>>

MetricNames == {None, "nonexistent", "revenue", "orders", "conversion_proxy"}

DimNames == {"date", "country", "order_status", "weather"}

DimLists == SeqsUpTo(DimNames, MaxDims)

US == StrVal(<<Word("US")>>)
INDIA == StrVal(<<Word("IN")>>)

\* filters whose values are lists of strings, as a QuerySpec holds them
TypedFilters ==
  { <<>>,
    <<Filter("country", TRUE, <<US>>)>>,
    <<Filter("country", TRUE, <<US, INDIA>>)>>,
    <<Filter("country", TRUE, <<>>)>>,
    <<Filter("country", TRUE, <<StrVal(<<>>)>>)>>,
    <<Filter("country", TRUE, <<StrVal(<<Blank>>), StrVal(<<>>)>>)>>,
    <<Filter("nonsense", TRUE, <<US>>)>>,
    <<Filter("order_status", TRUE, <<StrVal(<<Word("completed")>>)>>)>>,
    <<Filter("country", TRUE, <<US>>), Filter("date", TRUE, <<StrVal(<<Word("today")>>)>>)>>,
    <<Filter("country", TRUE, <<StrVal(<<Word("O"), Sym("'"), Word("Brien")>>)>>)>>,
    <<Filter("country", TRUE, <<StrVal(<<Word("x"), Sym("--"), Word("y")>>)>>)>>,
    <<Filter("country", TRUE, <<StrVal(<<Word("a"), Sym(";"), Blank, Word("b")>>)>>)>>,
    <<Filter("country", TRUE, <<StrVal(<<Word("Call"), Blank, Word("of"), Blank, Word("Duty")>>)>>)>>,
    <<Filter("country", TRUE, <<StrVal(<<Word("limit"), Blank, Num(9999)>>)>>)>> }

\* filters only a dict can hold
UntypedFilters ==
  { <<Filter("country", FALSE, <<>>)>>,
    <<Filter("country", TRUE, <<NonStrVal>>)>>,
    <<Filter("nonsense", FALSE, <<>>)>> }

GrainChoices == {None, "month", "quarter"}

RangeChoices ==
  { NoRange, TimeRange("last", 6, "month"), TimeRange("last", 30, "day"),
    TimeRange("last", 3000, "year"), TimeRange("this month", 0, ""),
    TimeRange("garbage", 0, "") }

LimitChoices == {0 - 5, 50, DefaultMaxRows, 9999}

\* what pydantic accepts as a QuerySpec
IsQuerySpec(sp) ==
  \A i \in 1..Len(sp.filters) :
    /\ sp.filters[i].is_list
    /\ \A k \in 1..Len(sp.filters[i].vals) : sp.filters[i].vals[k].is_str

\* the filters that matter to the naming and value checks
NamingFilters ==
  { <<>>,
    <<Filter("country", TRUE, <<US>>)>>,
    <<Filter("country", TRUE, <<>>)>>,
    <<Filter("country", TRUE, <<StrVal(<<Blank>>), StrVal(<<>>)>>)>>,
    <<Filter("nonsense", TRUE, <<US>>)>>,
    <<Filter("order_status", TRUE, <<StrVal(<<Word("completed")>>)>>)>> }

\* every field of the spec varied against the catalogue model
InitSpecs ==
  /\ model = CatalogModel(StarJoins)
  /\ hash_order = DefaultOrder
  /\ spec \in {QuerySpec(m, ds, fs, g, NoRange, l) :
                 m \in MetricNames, ds \in DimLists,
                 fs \in NamingFilters \cup UntypedFilters,
                 g \in GrainChoices, l \in {50, 9999}}

\* requested dimensions and filters that need joins
JoinNeeds ==
  { [ds |-> <<>>, fs |-> <<>>],
    [ds |-> <<"country">>, fs |-> <<>>],
    [ds |-> <<"country", "date">>, fs |-> <<>>],
    [ds |-> <<>>, fs |-> <<Filter("country", TRUE, <<US>>)>>],
    [ds |-> <<"date">>, fs |-> <<Filter("country", TRUE, <<US>>)>>] }

\* every join graph against the specs that need joins
InitGraphs ==
  /\ model \in {CatalogModel(js) : js \in ModelJoinLists}
  /\ hash_order \in {DefaultOrder, <<"dim_date", "dim_users", "fct_orders">>}
  /\ spec \in {QuerySpec("revenue", need.ds, need.fs, g, r, 50) :
                 need \in JoinNeeds, g \in {None, "quarter"},
                 r \in {NoRange, TimeRange("last", 6, "month")}}

\* what the generator and the safety check see
InitTexts ==
  /\ model = CatalogModel(StarJoins)
  /\ hash_order = DefaultOrder
  /\ spec \in {QuerySpec(m, ds, fs, g, r, l) :
                 m \in {"revenue", "orders", "nonexistent"},
                 ds \in {<<>>, <<"date", "country">>},
                 fs \in TypedFilters, g \in {None, "month"},
                 r \in RangeChoices, l \in LimitChoices}

InitCore ==
  /\ LibIdle
  /\ GraphIdle
  /\ LoadIdle
  /\ AskIdle
  /\ today = Today
  /\ v_errors = <<>>
  /\ generated = Generated("", <<>>, NoJoins)
  /\ s_errors = <<>>
  /\ core_pc = "input"
  /\ (InitSpecs \/ InitGraphs \/ InitTexts)

\* errors = validate_spec(spec.model_dump(), model)
Validate ==
  /\ core_pc = "input"
  /\ v_errors' = validate_spec(spec, model, hash_order)
  /\ core_pc' = "validated"
  /\ UNCHANGED <<graph_vars, load_vars, ask_vars, lib_vars,
               model, spec, hash_order, today, generated, s_errors>>

\* sql = generate_sql(spec, model): by its caller's contract after validation, but
\* nothing in generate_sql depends on what validation returned
Generate ==
  /\ core_pc = "validated"
  /\ IsQuerySpec(spec)
  /\ generated' = generate_sql(spec, model, hash_order, today)
  /\ core_pc' = "generated"
  /\ UNCHANGED <<graph_vars, load_vars, ask_vars, lib_vars,
               model, spec, hash_order, today, v_errors, s_errors>>

\* errors = check_sql_safety(sql, model)
Audit ==
  /\ core_pc = "generated"
  /\ generated.raised = ""
  /\ s_errors' = check_sql_safety(generated.sql, model)
  /\ core_pc' = "audited"
  /\ UNCHANGED <<graph_vars, load_vars, ask_vars, lib_vars,
               model, spec, hash_order, today, v_errors, generated>>

NextCore == Validate \/ Generate \/ Audit

SpecCore == InitCore /\ [][NextCore]_vars

Codes(errors) == {errors[i].code : i \in 1..Len(errors)}

\* ------------------------------------------------------------------------
\* load_semantic_model on bounded documents
\* ------------------------------------------------------------------------
MaxLoads == 2

JoinKeySets ==
  { JoinKeys, JoinKeys \ {"left_alias", "right_alias"}, JoinKeys \ {"right_alias"},
    JoinKeys \ {"type"}, JoinKeys \ {"on"}, JoinKeys \ {"left"} }

RawJoinChoices ==
  {<<>>}
    \cup {<<RawJoin(StarJoins[1], ks)>> : ks \in JoinKeySets}
    \cup {<<RawJoin(StarJoins[1], JoinKeys), RawJoin(StarJoins[2], ks)>> : ks \in JoinKeySets}

SecurityChoices ==
  { NoSecurity, RawSecurity({}, <<>>, 0), CatalogRawSecurity,
    RawSecurity(SecurityKeys \ {"max_rows"}, <<"USER_ID">>, 0),
    RawSecurity({"max_rows"}, <<>>, 50) }

MetricChoices ==
  { RawMetrics,
    <<RawMetric(CatalogMetrics[1], MetricKeys \ {"name"})>>,
    <<RawMetric(CatalogMetrics[1], {"name"})>>,
    <<RawMetric(CatalogMetrics[1], MetricKeys), RawMetric(CatalogMetrics[2], MetricKeys),
      RawMetric(CatalogMetrics[1], {"name"})>> }

DimensionChoices ==
  { RawDimensions,
    <<RawDimension(CatalogDimensions[2], DimensionKeys \ {"alias"})>>,
    <<RawDimension(CatalogDimensions[2], {"name", "column", "table", "alias"})>> }

Sources ==
  {EmptyFile}
    \cup {RawModel(keys, RawMetrics, RawDimensions, js, CatalogRawSecurity) :
            keys \in SUBSET (Sections \cup {"version"}), js \in RawJoinChoices}
    \cup {RawModel(Sections, ms, ds, js, sec) :
            ms \in MetricChoices, ds \in DimensionChoices,
            js \in {<<>>, RawJoins(StarJoins)}, sec \in SecurityChoices}

InitLoad ==
  /\ LibIdle
  /\ GraphIdle
  /\ CoreIdle
  /\ AskIdle
  /\ raw_yaml \in Sources
  /\ loaded = NotLoaded
  /\ lru_cache = NotLoaded
  /\ load_calls = 0

\* the first call, and every call after a failed one: the file is read and parsed
LoadSemanticModel ==
  /\ load_calls < MaxLoads
  /\ lru_cache = NotLoaded
  /\ loaded' = Loaded(_parse_model(raw_yaml), raw_yaml)
  /\ lru_cache' = IF loaded'.error = "" THEN loaded' ELSE lru_cache
  /\ load_calls' = load_calls + 1
  /\ UNCHANGED <<graph_vars, core_vars, ask_vars, lib_vars, raw_yaml>>

\* a later call: lru_cache answers, the file is not read
LoadCached ==
  /\ load_calls < MaxLoads
  /\ lru_cache # NotLoaded
  /\ loaded' = lru_cache
  /\ load_calls' = load_calls + 1
  /\ UNCHANGED <<graph_vars, core_vars, ask_vars, lib_vars, raw_yaml, lru_cache>>

\* the file is rewritten between two calls
EditSource ==
  /\ load_calls > 0
  /\ load_calls < MaxLoads
  /\ raw_yaml' \in {CatalogSource(StarJoins), EmptyFile} \ {raw_yaml}
  /\ UNCHANGED <<graph_vars, core_vars, ask_vars, lib_vars, loaded, lru_cache, load_calls>>

\* names = model.get_metric_names() on the model a call gave
GetMetricNames ==
  /\ loaded # NotLoaded
  /\ loaded.error = ""
  /\ history = <<>>
  /\ names' = get_metric_names(loaded.value)
  /\ history' = <<[fn |-> "get_metric_names"]>>
  /\ UNCHANGED <<graph_vars, core_vars, load_vars, ask_vars, roles, role_name, cache_cfg,
                 lock, threads, last_put>>

NextLoad == LoadSemanticModel \/ LoadCached \/ EditSource \/ GetMetricNames

SpecLoad == InitLoad /\ [][NextLoad]_vars

\* ------------------------------------------------------------------------
\* ask() (service.py), one step per call it makes; calls follow one another
\* ------------------------------------------------------------------------
MaxAsks == 2

Questions ==
  { <<"Revenue", "by", "country">>, <<"revenue", "by", "country">>,
    <<"Show", "customer", "Emails">>, <<"DROP", "TABLE", "users">>,
    <<"Active", "users", "by", "category", "last", "30", "days">> }

Modes == {"mock", "openai"}

Roles == {None, "analyst", "marketing"}

\* what the database does with a statement
DbOutcomes == {"rows", "empty", "error"}

\* _plan_mock on the questions about revenue that pass the input check: the keywords
\* revenue and by country, no grain, no time range, no filter, no limit
MockPlan == QuerySpec("revenue", <<"country">>, <<>>, None, NoRange, DefaultMaxRows)

\* q.find(kw) for a one-word keyword: the first place of the word, 0 if absent
WordAt(q, w) == FirstIndex(q, LAMBDA i : q[i] = w)

\* the first keywords of _METRIC_KEYWORDS and _DIMENSION_KEYWORDS that the questions use
MetricKeywords == <<[name |-> "revenue", kw |-> "revenue"], [name |-> "orders", kw |-> "orders"],
                    [name |-> "active_users", kw |-> "active"]>>

DimensionKeywords == <<"country", "category">>

\* int(m.group(1)) of the numbers the questions use
IntOf(w) == CASE w = "6" -> 6 [] w = "30" -> 30 [] OTHER -> 0

\* _plan_mock: the metric whose keyword comes first (revenue if none), the dimensions
\* named, the range `last N days`, no grain, no filter, the limit max_rows
_plan_mock(question, max_rows) ==
  LET q == LowerWords(question)
      found == {i \in 1..Len(MetricKeywords) : WordAt(q, MetricKeywords[i].kw) # 0}
      best == CHOOSE i \in found :
                \A k \in found : WordAt(q, MetricKeywords[i].kw) <= WordAt(q, MetricKeywords[k].kw)
      at == WordAt(q, "last")
  IN QuerySpec(IF found = {} THEN "revenue" ELSE MetricKeywords[best].name,
               SelectSeq(DimensionKeywords, LAMBDA d : WordAt(q, d) # 0),
               <<>>, None,
               IF at # 0 /\ at + 2 <= Len(q) /\ IntOf(q[at + 1]) # 0 /\ q[at + 2] = "days"
               THEN TimeRange("last", IntOf(q[at + 1]), "day") ELSE NoRange,
               max_rows)

\* what an LLM planner may answer: _parse_llm_response clamps the limit and
\* QuerySpec types the fields, the names and values are the LLM's
LlmPlans ==
  { MockPlan,
    QuerySpec("conversion_proxy", <<"date">>, <<>>, "month", TimeRange("last", 6, "month"),
              DefaultMaxRows),
    QuerySpec("profit", <<>>, <<>>, None, NoRange, 50),
    QuerySpec("revenue", <<"date">>,
              <<Filter("country", TRUE, <<StrVal(<<Word("x"), Sym("--"), Word("y")>>)>>)>>,
              "month", TimeRange("last", 6, "month"), 50),
    QuerySpec("revenue", <<"date", "country", "order_status">>,
              <<Filter("country", TRUE, <<US, INDIA, US, INDIA, US, INDIA, US, INDIA>>)>>,
              "month", NoRange, DefaultMaxRows),
    QuerySpec("revenue", <<"date", "country", "order_status">>,
              <<Filter("country", TRUE, <<StrVal(<<Word("join")>>), StrVal(<<Word("JOIN")>>)>>)>>,
              "month", NoRange, DefaultMaxRows),
    QuerySpec("orders", <<>>, <<>>, None, TimeRange("last", 3000, "year"), DefaultMaxRows) }

Plans(question, mode, max_rows) ==
  IF mode = "mock" THEN {_plan_mock(question, max_rows)} ELSE LlmPlans

\* dummy_spec of a blocked question
DummySpec == QuerySpec("blocked", <<>>, <<>>, None, NoRange, 0)

\* a row of copilot_query_logs
LogRow(question, mode, sp, text, row_count, validation_errors, safety_errors) ==
  [question |-> question, mode |-> mode, metric |-> sp.metric, generated_sql |-> text,
   row_count |-> row_count, validation_ok |-> validation_errors = <<>>,
   safety_ok |-> safety_errors = <<>>]

Called(f) == \E i \in 1..Len(trace) : trace[i] = f

\* the models ask() runs on: the catalogue, and the catalogue of the service tests with
\* the category dimension's table joined and not joined to the fact table
AskModels ==
  { _parse_model(CatalogSource(StarJoins)).value,
    _parse_model(ServiceSource(StarJoins)).value,
    _parse_model(ServiceSource(<<JoinEdge("fct_orders", "dim_date")>>)).value }

InitAsk ==
  /\ LibIdle
  /\ GraphIdle
  /\ LoadIdle
  /\ AskIdle
  /\ model \in AskModels
  /\ spec = DefaultSpec
  /\ hash_order = DefaultOrder
  /\ today = Today
  /\ v_errors = <<>>
  /\ generated = Generated("", <<>>, NoJoins)
  /\ s_errors = <<>>
  /\ core_pc = "idle"

ask_frame == <<graph_vars, load_vars, lib_vars, model, hash_order, today, generated, core_pc>>

\* ask(question, mode, execute, role) is called; time may have passed since the
\* entries of the cache were made
AskCall ==
  /\ ask_pc \in {"idle", "returned", "raised"}
  /\ ask_count < MaxAsks
  /\ \E q \in Questions, m \in Modes, e \in BOOLEAN, r \in Roles :
       request' = Request(q, m, e, r)
  /\ \E dt \in (IF cache_store = <<>> THEN {0} ELSE {0, DEFAULT_TTL_SECONDS + 1}) :
       now' = now + dt
  /\ ask_count' = ask_count + 1
  /\ ask_pc' = "cache"
  /\ spec' = DefaultSpec
  /\ v_errors' = <<>>
  /\ s_errors' = <<>>
  /\ rbac_errors' = <<>>
  /\ sql' = <<>>
  /\ rows' = <<>>
  /\ cost' = NoCost
  /\ trace' = <<>>
  /\ ret' = NoReturn
  /\ UNCHANGED <<ask_frame, executor_calls, query_log, cache_store, heap>>

\* cache.get finds a live entry: the cached object is marked and returned
AskCacheHit ==
  /\ ask_pc = "cache"
  /\ LET got == cache_get(cache_store, request.question, request.mode, request.execute, now)
     IN /\ got.value # 0
        /\ cache_store' = got.store
        /\ heap' = [heap EXCEPT ![got.value].cached = TRUE]
        /\ ret' = Returned("result", got.value, "")
  /\ trace' = Append(trace, "cache.get")
  /\ ask_pc' = "returned"
  /\ UNCHANGED <<ask_frame, spec, v_errors, s_errors, request, ask_count, now, rbac_errors,
                 sql, rows, cost, executor_calls, query_log>>

\* cache.get finds nothing, or an expired entry that it deletes
AskCacheMiss ==
  /\ ask_pc = "cache"
  /\ LET got == cache_get(cache_store, request.question, request.mode, request.execute, now)
     IN /\ got.value = 0
        /\ cache_store' = got.store
  /\ trace' = Append(trace, "cache.get")
  /\ ask_pc' = "input"
  /\ UNCHANGED <<ask_frame, spec, v_errors, s_errors, request, ask_count, now, rbac_errors,
                 sql, rows, cost, executor_calls, query_log, heap, ret>>

\* step 0, the question is refused: log_query is tried, the result has no SQL
AskBlocked ==
  /\ ask_pc = "input"
  /\ LET input_errors == _check_input_safety(request.question)
     IN /\ input_errors # <<>>
        /\ spec' = DummySpec
        /\ v_errors' = input_errors
        /\ \E written \in BOOLEAN :
             query_log' =
               IF written
               THEN Append(query_log, LogRow(request.question, request.mode, DummySpec,
                                             <<>>, 0, input_errors, <<>>))
               ELSE query_log
        /\ heap' = Append(heap, CopilotResult(DummySpec, <<>>, <<>>, input_errors, <<>>,
                                              <<>>, <<>>, 0, FALSE))
        /\ ret' = Returned("result", Len(heap) + 1, "")
  /\ trace' = trace \o <<"_check_input_safety", "log_query">>
  /\ ask_pc' = "returned"
  /\ UNCHANGED <<ask_frame, s_errors, request, ask_count, now, rbac_errors, sql, rows,
                 cost, executor_calls, cache_store>>

AskInputOk ==
  /\ ask_pc = "input"
  /\ _check_input_safety(request.question) = <<>>
  /\ trace' = Append(trace, "_check_input_safety")
  /\ ask_pc' = "plan"
  /\ UNCHANGED <<ask_frame, spec, v_errors, s_errors, request, ask_count, now, rbac_errors,
                 sql, rows, cost, executor_calls, query_log, cache_store, heap, ret>>

\* step 1: spec = plan(question, mode)
AskPlan ==
  /\ ask_pc = "plan"
  /\ spec' \in Plans(request.question, request.mode, model.security.max_rows)
  /\ trace' = Append(trace, "plan")
  /\ ask_pc' = "rbac"
  /\ UNCHANGED <<ask_frame, v_errors, s_errors, request, ask_count, now, rbac_errors,
                 sql, rows, cost, executor_calls, query_log, cache_store, heap, ret>>

\* step 1: the LLM client raises (no key, no package) and ask() passes it on
AskPlanRaises ==
  /\ ask_pc = "plan"
  /\ request.mode # "mock"
  /\ trace' = Append(trace, "plan")
  /\ ret' = Returned("raised", 0, "RuntimeError")
  /\ ask_pc' = "raised"
  /\ UNCHANGED <<ask_frame, spec, v_errors, s_errors, request, ask_count, now, rbac_errors,
                 sql, rows, cost, executor_calls, query_log, cache_store, heap>>

\* step 1.5 without a role: check_rbac is not called
AskNoRole ==
  /\ ask_pc = "rbac"
  /\ request.role = None
  /\ rbac_errors' = <<>>
  /\ ask_pc' = "validate"
  /\ UNCHANGED <<ask_frame, spec, v_errors, s_errors, request, ask_count, now, sql, rows,
                 cost, trace, executor_calls, query_log, cache_store, heap, ret>>

\* step 1.5 with a role: model.roles is read; a SemanticModel has no such attribute
AskRbac ==
  /\ ask_pc = "rbac"
  /\ request.role # None
  /\ IF "roles" \in DOMAIN model
     THEN /\ rbac_errors' = check_rbac(request.role, spec.metric, spec.dimensions,
                                       model.roles)
          /\ trace' = Append(trace, "check_rbac")
          /\ ask_pc' = "validate"
          /\ ret' = ret
     ELSE /\ rbac_errors' = rbac_errors
          /\ trace' = trace
          /\ ask_pc' = "raised"
          /\ ret' = Returned("raised", 0, "AttributeError")
  /\ UNCHANGED <<ask_frame, spec, v_errors, s_errors, request, ask_count, now, sql, rows,
                 cost, executor_calls, query_log, cache_store, heap>>

\* step 2: v_errors = validate_spec(spec.model_dump(), model)
AskValidate ==
  /\ ask_pc = "validate"
  /\ v_errors' = validate_spec(spec, model, hash_order)
  /\ trace' = Append(trace, "validate_spec")
  /\ ask_pc' = "generate"
  /\ UNCHANGED <<ask_frame, spec, s_errors, request, ask_count, now, rbac_errors, sql,
                 rows, cost, executor_calls, query_log, cache_store, heap, ret>>

\* GenerateGate without the validation errors
GenerateGateRbacOnly == rbac_errors = <<>>

\* `if not v_errors and not rbac_errors`
GenerateGate == v_errors = <<>> /\ rbac_errors = <<>>

\* step 3: sql = generate_sql(spec, model), whose exception ask() passes on
AskGenerate ==
  /\ ask_pc = "generate"
  /\ GenerateGate
  /\ LET made == generate_sql(spec, model, hash_order, today)
     IN IF made.raised = ""
        THEN /\ sql' = made.sql
             /\ ask_pc' = "audit"
             /\ ret' = ret
        ELSE /\ sql' = sql
             /\ ask_pc' = "raised"
             /\ ret' = Returned("raised", 0, made.raised)
  /\ trace' = Append(trace, "generate_sql")
  /\ UNCHANGED <<ask_frame, spec, v_errors, s_errors, request, ask_count, now, rbac_errors,
                 rows, cost, executor_calls, query_log, cache_store, heap>>

AskSkipGenerate ==
  /\ ask_pc = "generate"
  /\ ~GenerateGate
  /\ ask_pc' = "execute"
  /\ UNCHANGED <<ask_frame, spec, v_errors, s_errors, request, ask_count, now, rbac_errors,
                 sql, rows, cost, trace, executor_calls, query_log, cache_store, heap, ret>>

\* step 4: s_errors = check_sql_safety(sql, model)
AskAudit ==
  /\ ask_pc = "audit"
  /\ s_errors' = check_sql_safety(sql, model)
  /\ trace' = Append(trace, "check_sql_safety")
  /\ ask_pc' = "cost"
  /\ UNCHANGED <<ask_frame, spec, v_errors, request, ask_count, now, rbac_errors, sql,
                 rows, cost, executor_calls, query_log, cache_store, heap, ret>>

\* step 4.5, `if not s_errors`: the estimate, and its blocking message if any
AskCost ==
  /\ ask_pc = "cost"
  /\ s_errors = <<>>
  /\ cost' = estimate_query_cost(spec, sql)
  /\ s_errors' = s_errors \o block_if_too_expensive(cost')
  /\ trace' = trace \o <<"estimate_query_cost", "block_if_too_expensive">>
  /\ ask_pc' = "execute"
  /\ UNCHANGED <<ask_frame, spec, v_errors, request, ask_count, now, rbac_errors, sql,
                 rows, executor_calls, query_log, cache_store, heap, ret>>

AskSkipCost ==
  /\ ask_pc = "cost"
  /\ s_errors # <<>>
  /\ ask_pc' = "execute"
  /\ UNCHANGED <<ask_frame, spec, v_errors, s_errors, request, ask_count, now, rbac_errors,
                 sql, rows, cost, trace, executor_calls, query_log, cache_store, heap, ret>>

\* `if not v_errors and not s_errors and not rbac_errors and sql and execute`,
\* without the safety errors
ExecuteGateNoSafety ==
  v_errors = <<>> /\ rbac_errors = <<>> /\ sql # <<>> /\ request.execute

ExecuteGate ==
  v_errors = <<>> /\ s_errors = <<>> /\ rbac_errors = <<>> /\ sql # <<>> /\ request.execute

\* step 5: rows = execute_readonly(sql), an exception becoming a safety error
AskExecute ==
  /\ ask_pc = "execute"
  /\ ExecuteGate
  /\ executor_calls' = Append(executor_calls, sql)
  /\ \E outcome \in DbOutcomes :
       /\ rows' = IF outcome = "rows" THEN <<"row">> ELSE <<>>
       /\ s_errors' = IF outcome = "error"
                      THEN Append(s_errors, Msg("ExecutionError", "", <<>>, 0))
                      ELSE s_errors
  /\ trace' = Append(trace, "execute_readonly")
  /\ ask_pc' = "log"
  /\ UNCHANGED <<ask_frame, spec, v_errors, request, ask_count, now, rbac_errors, sql,
                 cost, query_log, cache_store, heap, ret>>

AskSkipExecute ==
  /\ ask_pc = "execute"
  /\ ~ExecuteGate
  /\ ask_pc' = "log"
  /\ UNCHANGED <<ask_frame, spec, v_errors, s_errors, request, ask_count, now, rbac_errors,
                 sql, rows, cost, trace, executor_calls, query_log, cache_store, heap, ret>>

\* step 6: log_query in a try block: the row is written, or the failure is swallowed
AskLog ==
  /\ ask_pc = "log"
  /\ \E written \in BOOLEAN :
       query_log' =
         IF written
         THEN Append(query_log, LogRow(request.question, request.mode, spec, sql,
                                       Len(rows), v_errors \o rbac_errors, s_errors))
         ELSE query_log
  /\ trace' = Append(trace, "log_query")
  /\ ask_pc' = "return"
  /\ UNCHANGED <<ask_frame, spec, v_errors, s_errors, request, ask_count, now, rbac_errors,
                 sql, rows, cost, executor_calls, cache_store, heap, ret>>

\* the result is made, cached `if result.success and rows`, and returned
AskReturn ==
  /\ ask_pc = "return"
  /\ LET result == CopilotResult(spec, sql, rows, v_errors, s_errors, rbac_errors,
                                 cost.warnings, cost.estimated_score, FALSE)
         stored == success(result) /\ rows # <<>>
     IN /\ heap' = Append(heap, result)
        /\ ret' = Returned("result", Len(heap) + 1, "")
        /\ cache_store' =
             IF stored
             THEN cache_put(cache_store, request.question, request.mode, request.execute,
                            Len(heap) + 1, now, DEFAULT_MAX_SIZE)
             ELSE cache_store
        /\ trace' = IF stored THEN Append(trace, "cache.put") ELSE trace
  /\ ask_pc' = "returned"
  /\ UNCHANGED <<ask_frame, spec, v_errors, s_errors, request, ask_count, now, rbac_errors,
                 sql, rows, cost, executor_calls, query_log>>

NextAsk ==
  \/ AskCall \/ AskCacheHit \/ AskCacheMiss \/ AskBlocked \/ AskInputOk
  \/ AskPlan \/ AskPlanRaises \/ AskNoRole \/ AskRbac \/ AskValidate
  \/ AskGenerate \/ AskSkipGenerate \/ AskAudit \/ AskCost \/ AskSkipCost
  \/ AskExecute \/ AskSkipExecute \/ AskLog \/ AskReturn

SpecAsk == InitAsk /\ [][NextAsk]_vars

\* ------------------------------------------------------------------------
\* validate_spec and generate_sql called again and again with one spec and model
\* ------------------------------------------------------------------------
MaxCalls == 3

\* The iteration orders of a set of table names. The hash of a str is seeded when the
\* interpreter starts, so a set of the same names is iterated in one order for the
\* life of a process and possibly in another order in another process.
HashOrders == {DefaultOrder, <<"dim_date", "dim_users", "fct_orders">>}

Call(fn, sp, m, day, out) == [fn |-> fn, spec |-> sp, model |-> m, today |-> day, out |-> out]

RepeatSpecs ==
  { QuerySpec("revenue", <<"country", "date">>, <<>>, None, NoRange, 50),
    QuerySpec("revenue", <<"date">>, <<Filter("country", TRUE, <<US>>)>>, "month",
              TimeRange("last", 6, "month"), 50),
    QuerySpec("orders", <<"country">>, <<>>, None, TimeRange("last", 30, "day"), 50),
    QuerySpec("revenue", <<"order_status">>, <<>>, None, NoRange, 50) }

InitRepeat ==
  /\ GraphIdle
  /\ LoadIdle
  /\ AskIdle
  /\ model \in {CatalogModel(StarJoins), CatalogModel(<<>>)}
  /\ spec \in RepeatSpecs
  /\ hash_order \in HashOrders
  /\ today = Today
  /\ v_errors = <<>>
  /\ generated = Generated("", <<>>, NoJoins)
  /\ s_errors = <<>>
  /\ core_pc = "idle"
  /\ history = <<>>
  /\ names = <<>>
  /\ roles = <<>>
  /\ role_name = ""
  /\ cache_cfg = [ttl |-> DEFAULT_TTL_SECONDS, max_size |-> DEFAULT_MAX_SIZE]
  /\ lock = 0
  /\ threads = <<>>
  /\ last_put = <<>>

\* validate_spec(spec, model) once more
RepeatValidate ==
  /\ Len(history) < MaxCalls
  /\ v_errors' = validate_spec(spec, model, hash_order)
  /\ history' = Append(history, Call("validate_spec", spec, model, today, v_errors'))
  /\ UNCHANGED <<graph_vars, load_vars, ask_vars, model, spec, hash_order, today,
                 generated, s_errors, core_pc, names, roles, role_name, cache_cfg, lock,
                 threads, last_put>>

\* generate_sql(spec, model) once more
RepeatGenerate ==
  /\ Len(history) < MaxCalls
  /\ generated' = generate_sql(spec, model, hash_order, today)
  /\ history' = Append(history, Call("generate_sql", spec, model, today,
                                     [raised |-> generated'.raised, sql |-> generated'.sql]))
  /\ UNCHANGED <<graph_vars, load_vars, ask_vars, model, spec, hash_order, today,
                 v_errors, s_errors, core_pc, names, roles, role_name, cache_cfg, lock,
                 threads, last_put>>

\* the next call is answered by another interpreter process (the server restarted,
\* or another worker of it): same model file, same spec, hashes seeded anew
Restart ==
  /\ history # <<>>
  /\ Len(history) < MaxCalls
  /\ hash_order' \in HashOrders \ {hash_order}
  /\ UNCHANGED <<graph_vars, load_vars, ask_vars, lib_vars, model, spec, today, v_errors,
                 generated, s_errors, core_pc>>

NextRepeat == RepeatValidate \/ RepeatGenerate \/ Restart

SpecRepeat == InitRepeat /\ [][NextRepeat]_vars

\* ------------------------------------------------------------------------
\* check_sql_safety applied to hand-written statements (tests/unit/test_sql_safety.py)
\* ------------------------------------------------------------------------
Call1(f, arg) == <<Word(f), Sym("(")>> \o arg \o <<Sym(")")>>

As(expr, name) == expr \o <<Word("AS"), Word(name)>>

\* the expressions a projection is made of
Items ==
  { <<Ref("oi", "user_id")>>,
    <<Ref("o", "Order_ID")>>,
    <<Word("user_id")>>,
    As(Call1("SUM", <<Ref("oi", "quantity")>>), "items"),
    As(Call1("COUNT", <<Word("DISTINCT"), Ref("o", "order_id")>>), "orders"),
    As(Call1("SUM", <<Ref("o", "user_id")>>), "uid_sum"),
    As(<<Ref("o", "amount")>>, "order_id"),
    As(Call1("max", <<Ref("o", "amount")>>), "USER_ID"),
    As(Call1("SUM", Call1("ABS", <<Ref("o", "amount")>>)
                      \o <<Sym("+"), Ref("o", "user_id")>>), "total") }

Projections ==
  {<<Word("SELECT")>> \o x : x \in Items}
    \cup {<<Word("SELECT")>> \o x \o <<Sym(",")>> \o y : x \in Items, y \in Items}

Orders == <<Ref("marts", "fct_orders"), Word("AS"), Word("o")>>

\* FROM at the start of a line, FROM in the line of the projection, FROM with the
\* table on the next line
FromClauses ==
  { <<NL, Word("FROM")>> \o Orders,
    <<Word("from")>> \o Orders,
    <<NL, Word("FROM"), NL, Blank, Blank>> \o Orders }

Tails ==
  { <<>>,
    <<NL, Word("LEFT"), Word("JOIN"), Ref("marts", "dim_users"), Word("u"),
      Word("ON"), Ref("o", "user_id"), Sym("="), Ref("u", "user_id")>>,
    <<NL, Word("WHERE"), Ref("o", "amount"), Word("IN"), Sym("("),
      Word("SELECT"), Ref("p", "order_id"), NL, Word("FROM"),
      Ref("marts", "fct_orders"), Word("p"), Sym(")")>> }

Statements ==
  {p \o f \o t \o <<NL, Word("LIMIT"), Num(10)>> :
     p \in Projections, f \in FromClauses, t \in Tails}

InitSafety ==
  /\ LibIdle
  /\ GraphIdle
  /\ LoadIdle
  /\ AskIdle
  /\ model = CatalogModel(StarJoins)
  /\ spec = DefaultSpec
  /\ hash_order = DefaultOrder
  /\ today = Today
  /\ v_errors = <<>>
  /\ generated \in {Generated("", text, NoJoins) : text \in Statements}
  /\ s_errors = <<>>
  /\ core_pc = "generated"

NextSafety == Audit

SpecSafety == InitSafety /\ [][NextSafety]_vars

\* ------------------------------------------------------------------------
\* check_rbac applied to role definitions (rbac.py, tests/unit/test_rbac.py)
\* ------------------------------------------------------------------------
MaxRoleDims == 2

\* parse_roles of the sample document: "*" becomes a wildcard flag and an empty list
SampleRoles ==
  << Role("finance", <<"revenue", "aov", "orders">>, <<"date", "country", "category">>,
          FALSE, FALSE),
     Role("marketing", <<"active_users", "orders">>, <<"date", "country", "device">>,
          FALSE, FALSE),
     Role("analyst", <<>>, <<>>, TRUE, TRUE) >>

RoleSets ==
  { <<>>,
    SampleRoles,
    << Role("finance", <<>>, <<"date">>, TRUE, FALSE) >>,
    << Role("finance", <<"revenue">>, <<>>, FALSE, TRUE),
       Role("intern", <<>>, <<>>, FALSE, FALSE) >> }

RoleNames == {None, "intern", "finance", "marketing", "analyst"}

RbacCall(role, metric_name, dimensions, defined) ==
  [fn |-> "check_rbac", role |-> role, metric |-> metric_name, dimensions |-> dimensions,
   roles |-> defined]

InitRbac ==
  /\ GraphIdle
  /\ CoreIdle
  /\ LoadIdle
  /\ AskIdle
  /\ history = <<>>
  /\ names = <<>>
  /\ roles \in RoleSets
  /\ role_name \in RoleNames
  /\ cache_cfg = [ttl |-> DEFAULT_TTL_SECONDS, max_size |-> DEFAULT_MAX_SIZE]
  /\ lock = 0
  /\ threads = <<>>
  /\ last_put = <<>>

\* errors = check_rbac(role_name, metric, dimensions, roles)
CheckRbac ==
  /\ history = <<>>
  /\ \E metric_name \in {"revenue", "active_users"},
        dimensions \in SeqsUpTo({"date", "device", "category"}, MaxRoleDims) :
       /\ rbac_errors' = check_rbac(role_name, metric_name, dimensions, roles)
       /\ history' = <<RbacCall(role_name, metric_name, dimensions, roles)>>
  /\ UNCHANGED <<graph_vars, core_vars, load_vars, request, ask_pc, ask_count, now, sql,
                 rows, cost, trace, executor_calls, query_log, cache_store, heap, ret,
                 names, roles, role_name, cache_cfg, lock, threads, last_put>>

NextRbac == CheckRbac

SpecRbac == InitRbac /\ [][NextRbac]_vars

\* ------------------------------------------------------------------------
\* QueryCache called from several threads (cache.py); every public method
\* computes its key, takes self._lock and runs its body under the lock
\* ------------------------------------------------------------------------
MaxThreads == 2
MaxCacheCalls == 3
MaxTime == 2

CacheArg(question, mode, execute) == [question |-> question, mode |-> mode, execute |-> execute]

\* the arguments of the calls: one question in two spellings, both execute flags,
\* both modes
CacheArgs ==
  { CacheArg(<<"Revenue">>, "mock", TRUE),
    CacheArg(<<" ", "revenue", " ">>, "mock", TRUE),
    CacheArg(<<"Revenue">>, "mock", FALSE),
    CacheArg(<<"orders">>, "openai", TRUE) }

CacheConfigs == {[ttl |-> 1, max_size |-> n] : n \in 0..2}

Thread(pc, op, arg, value, calls, result) ==
  [pc |-> pc, op |-> op, arg |-> arg, value |-> value, calls |-> calls, ret |-> result]

IdleThread == Thread("idle", "", CacheArg(<<>>, "", FALSE), 0, 0, 0)

\* a put on record: what was stored, when, and whether its entry was invalidated
\* or evicted since
PutNote(arg, value, time, gone) == [arg |-> arg, value |-> value, time |-> time, gone |-> gone]

\* the notes of the entries under the given keys are marked as gone
Dropped(notes, keys) ==
  [i \in 1..Len(notes) |->
     IF _make_key(notes[i].arg.question, notes[i].arg.mode, notes[i].arg.execute) \in keys
     THEN [notes[i] EXCEPT !.gone = TRUE]
     ELSE notes[i]]

KeysOf(store) == {store[i].key : i \in 1..Len(store)}

RECURSIVE CallsMade(_, _)
\* the calls made by the first n threads
CallsMade(ths, n) == IF n = 0 THEN 0 ELSE ths[n].calls + CallsMade(ths, n - 1)

InitCache ==
  /\ GraphIdle
  /\ CoreIdle
  /\ LoadIdle
  /\ AskIdle
  /\ history = <<>>
  /\ names = <<>>
  /\ roles = <<>>
  /\ role_name = ""
  /\ cache_cfg \in CacheConfigs
  /\ lock = 0
  /\ threads = [t \in 1..MaxThreads |-> IdleThread]
  /\ last_put = <<>>

cache_frame ==
  <<graph_vars, core_vars, load_vars, request, ask_pc, ask_count, rbac_errors, sql, rows,
    cost, trace, executor_calls, query_log, heap, ret, history, names, roles, role_name,
    cache_cfg>>

\* a thread calls one of the public methods; a put stores a new result object
CacheCall(t) ==
  /\ threads[t].pc \in {"idle", "done"}
  /\ CallsMade(threads, MaxThreads) < MaxCacheCalls
  /\ \E op \in {"get", "put", "invalidate", "invalidate_all", "cleanup_expired"},
        arg \in CacheArgs :
       /\ op \in {"invalidate_all", "cleanup_expired"} => arg = CacheArg(<<"orders">>, "openai", TRUE)
       /\ threads' = [threads EXCEPT ![t] =
            Thread("called", op, arg, IF op = "put" THEN Len(last_put) + 1 ELSE 0,
                   threads[t].calls + 1, 0)]
  /\ UNCHANGED <<cache_frame, cache_store, now, lock, last_put>>

\* `with self._lock:` is entered when no thread holds the lock
Acquire(t) ==
  /\ threads[t].pc = "called"
  /\ lock = 0
  /\ lock' = t
  /\ threads' = [threads EXCEPT ![t].pc = "locked"]
  /\ UNCHANGED <<cache_frame, cache_store, now, last_put>>

\* the body of get, and the release of the lock
GetBody(t) ==
  /\ threads[t].pc = "locked"
  /\ lock = t
  /\ threads[t].op = "get"
  /\ LET c == threads[t].arg
         got == cache_get(cache_store, c.question, c.mode, c.execute, now)
     IN /\ cache_store' = got.store
        /\ threads' = [threads EXCEPT ![t].pc = "done", ![t].ret = got.value]
  /\ lock' = 0
  /\ UNCHANGED <<cache_frame, now, last_put>>

\* put: the capacity check and the eviction
PutCheck(t) ==
  /\ threads[t].pc = "locked"
  /\ lock = t
  /\ threads[t].op = "put"
  /\ LET c == threads[t].arg
         kept == put_evict(cache_store, _make_key(c.question, c.mode, c.execute),
                           cache_cfg.max_size)
     IN /\ cache_store' = kept
        /\ last_put' = Dropped(last_put, KeysOf(cache_store) \ KeysOf(kept))
  /\ threads' = [threads EXCEPT ![t].pc = "store"]
  /\ UNCHANGED <<cache_frame, now, lock>>

\* put: the entry is stored with the time of now, and the lock released
PutStore(t) ==
  /\ threads[t].pc = "store"
  /\ lock = t
  /\ LET c == threads[t].arg
     IN /\ cache_store' = put_store(cache_store, _make_key(c.question, c.mode, c.execute),
                                    threads[t].value, now, cache_cfg.ttl)
        /\ last_put' = Append(last_put, PutNote(c, threads[t].value, now, FALSE))
  /\ threads' = [threads EXCEPT ![t].pc = "done"]
  /\ lock' = 0
  /\ UNCHANGED <<cache_frame, now>>

\* the body of invalidate, for one question or for all
InvalidateBody(t) ==
  /\ threads[t].pc = "locked"
  /\ lock = t
  /\ threads[t].op \in {"invalidate", "invalidate_all"}
  /\ LET c == threads[t].arg
         left == cache_invalidate(cache_store, threads[t].op = "invalidate_all",
                                  c.question, c.mode, c.execute)
     IN /\ cache_store' = left.store
        /\ last_put' = Dropped(last_put, KeysOf(cache_store) \ KeysOf(left.store))
        /\ threads' = [threads EXCEPT ![t].pc = "done", ![t].ret = left.value]
  /\ lock' = 0
  /\ UNCHANGED <<cache_frame, now>>

\* the body of cleanup_expired
CleanupBody(t) ==
  /\ threads[t].pc = "locked"
  /\ lock = t
  /\ threads[t].op = "cleanup_expired"
  /\ LET left == cleanup_expired(cache_store, now)
     IN /\ cache_store' = left.store
        /\ threads' = [threads EXCEPT ![t].pc = "done", ![t].ret = left.value]
  /\ lock' = 0
  /\ UNCHANGED <<cache_frame, now, last_put>>

\* time.time() moves on
Tick ==
  /\ now < MaxTime
  /\ now' = now + 1
  /\ UNCHANGED <<cache_frame, cache_store, lock, threads, last_put>>

NextCache ==
  \/ \E t \in 1..MaxThreads : CacheCall(t)
  \/ \E t \in 1..MaxThreads : Acquire(t)
  \/ \E t \in 1..MaxThreads : GetBody(t)
  \/ \E t \in 1..MaxThreads : PutCheck(t)
  \/ \E t \in 1..MaxThreads : PutStore(t)
  \/ \E t \in 1..MaxThreads : InvalidateBody(t)
  \/ \E t \in 1..MaxThreads : CleanupBody(t)
  \/ Tick

SpecCache == InitCache /\ [][NextCache]_vars

\* ------------------------------------------------------------------------
\* validate_spec on models with and without grains of the date dimension
\* ------------------------------------------------------------------------
\* the catalogue with a date dimension that lists no grains (`grains: []` or no
\* grains key), and the catalogue without a date dimension
GrainModels ==
  { CatalogModel(StarJoins),
    SemanticModel(1, CatalogMetrics,
                  <<Dimension("date", <<Ref("d", "date_day")>>, "dim_date", <<>>,
                              NoGrainExpr)>> \o Tail(CatalogDimensions),
                  StarJoins, CatalogSecurity, {QTable(t) : t \in Tables}),
    SemanticModel(1, CatalogMetrics, Tail(CatalogDimensions), StarJoins, CatalogSecurity,
                  {QTable(t) : t \in Tables}) }

InitGrain ==
  /\ LibIdle
  /\ GraphIdle
  /\ LoadIdle
  /\ AskIdle
  /\ today = Today
  /\ v_errors = <<>>
  /\ generated = Generated("", <<>>, NoJoins)
  /\ s_errors = <<>>
  /\ core_pc = "input"
  /\ hash_order = DefaultOrder
  /\ model \in GrainModels
  /\ spec \in {QuerySpec(m, ds, <<>>, g, NoRange, 50) :
                 m \in {"revenue", "nonexistent"},
                 ds \in {<<>>, <<"date">>, <<"country">>, <<"country", "date">>},
                 g \in {None, "day", "week", "month", "quarter"}}

NextGrain == Validate

SpecGrain == InitGrain /\ [][NextGrain]_vars

\* ------------------------------------------------------------------------
\* _resolve_time_range applied to time ranges and dates (sql_generator.py)
\* ------------------------------------------------------------------------
\* the current dates tried: today, the end of a January, a leap day and a date in year 3
Todays ==
  { Today, Date(2026, 1, 31, 739647), Date(2024, 2, 29, 738945), Date(3, 3, 15, 804) }

\* the numbers N of `last N <unit>`
RangeCounts == {0, 1, 2, 3, 12, 13, 26, 27, 30}

\* the texts of a time range, as the code's tests and pattern part them
TimeRanges ==
  { NoRange, TimeRange("empty", 0, ""), TimeRange("garbage", 0, ""),
    TimeRange("this month", 0, ""), TimeRange("this year", 0, ""),
    TimeRange("year to date", 0, ""), TimeRange("ytd", 0, "") }
    \cup {TimeRange("last", n, u) : n \in RangeCounts, u \in {"day", "week", "month", "year"}}
    \cup {TimeRange("last", n, "day") : n \in {803, 804, MaxTimedeltaDays + 1}}
    \cup {TimeRange("last", n, "year") : n \in {2026, 3000}}

RangeCall(time_range, day, out) ==
  [fn |-> "_resolve_time_range", time_range |-> time_range, today |-> day, out |-> out]

InitRange ==
  /\ LibIdle
  /\ GraphIdle
  /\ LoadIdle
  /\ AskIdle
  /\ model = CatalogModel(StarJoins)
  /\ hash_order = DefaultOrder
  /\ v_errors = <<>>
  /\ generated = Generated("", <<>>, NoJoins)
  /\ s_errors = <<>>
  /\ core_pc = "idle"
  /\ today \in Todays
  /\ spec \in {QuerySpec("revenue", <<>>, <<>>, None, r, 50) : r \in TimeRanges}

\* resolved = _resolve_time_range(spec.time_range)
ResolveTimeRange ==
  /\ history = <<>>
  /\ history' = <<RangeCall(spec.time_range, today,
                            _resolve_time_range(spec.time_range, today))>>
  /\ UNCHANGED <<graph_vars, core_vars, load_vars, ask_vars, names, roles, role_name,
                 cache_cfg, lock, threads, last_put>>

NextRange == ResolveTimeRange

SpecRange == InitRange /\ [][NextRange]_vars

\* ------------------------------------------------------------------------
\* Claims
\* ------------------------------------------------------------------------
\* C1: for every spec validate_spec accepts, generate_sql does not raise and
\* check_sql_safety finds no violation in the generated SQL.
C1_ValidatorSoundness ==
  core_pc \in {"generated", "audited"} /\ v_errors = <<>> =>
    /\ generated.raised = ""
    /\ core_pc = "audited" => s_errors = <<>>

\* where f stands in the trace of the request, 0 if it was not called
TraceIndex(f) == FirstIndex(trace, LAMBDA i : trace[i] = f)

Before(f, g) == TraceIndex(f) # 0 /\ TraceIndex(f) < TraceIndex(g)

\* C2: execute_readonly is called for a request only after validate_spec, the RBAC
\* check, check_sql_safety and the cost guard have returned no errors for that
\* request, with a non-empty SQL text and execute=True; in every other case the
\* executor is not called and the rows of the request stay empty.
C2_ExecuteOnlyAfterChecks ==
  /\ Called("execute_readonly") =>
       /\ request.execute
       /\ sql # <<>>
       /\ executor_calls # <<>> /\ executor_calls[Len(executor_calls)] = sql
       /\ Before("validate_spec", "execute_readonly") /\ v_errors = <<>>
       /\ request.role # None => Before("check_rbac", "execute_readonly")
       /\ rbac_errors = <<>>
       /\ Before("check_sql_safety", "execute_readonly")
       /\ check_sql_safety(sql, model) = <<>>
       /\ Before("block_if_too_expensive", "execute_readonly")
       /\ block_if_too_expensive(cost) = <<>>
       /\ Codes(s_errors) \subseteq {"ExecutionError"}
  /\ ~Called("execute_readonly") => rows = <<>>
  /\ Len(executor_calls) <= ask_count

C2_Witness ==
  /\ ask_pc = "returned"
  /\ Called("execute_readonly")
  /\ rows # <<>>
  /\ ask_count = 2
  /\ Len(executor_calls) = 1

\* C3: generate_sql is called only when validate_spec and the RBAC check returned
\* no errors; when validation reports a violation (a derived metric among them) no
\* SQL is generated, the result's sql is empty, and neither check_sql_safety nor
\* execute_readonly is called for the request.
C3_GenerateOnlyWhenValid ==
  /\ Called("generate_sql") =>
       /\ Before("validate_spec", "generate_sql")
       /\ v_errors = <<>>
       /\ rbac_errors = <<>>
  /\ v_errors # <<>> =>
       /\ sql = <<>>
       /\ ~Called("generate_sql")
       /\ ~Called("check_sql_safety")
       /\ ~Called("execute_readonly")
       /\ ret.kind = "result" => heap[ret.ref].sql = <<>>

C3_Witness ==
  /\ ask_pc = "returned"
  /\ request.execute
  /\ HasMetric(model, spec.metric) /\ metric(model, spec.metric).is_derived
  /\ Codes(v_errors) = {"DerivedMetric"}
  /\ ret.kind = "result"
  /\ heap[ret.ref].sql = <<>>

KnownMetric(sp, mdl) == HasMetric(mdl, sp.metric) /\ ~metric(mdl, sp.metric).is_derived

\* C4: a missing, empty, unknown or derived metric yields exactly one message (for a
\* derived metric one that names its components) and no other check is made,
\* whatever the dimensions, filters, time_grain and limit of the spec are.
C4_MetricErrorStops ==
  core_pc \in {"validated", "generated", "audited"} =>
    /\ spec.metric = None => v_errors = <<Msg("NoMetric", "", <<>>, 0)>>
    /\ spec.metric # None /\ ~HasMetric(model, spec.metric) =>
         /\ Len(v_errors) = 1
         /\ v_errors[1].code = "UnknownMetric"
         /\ v_errors[1].name = spec.metric
    /\ HasMetric(model, spec.metric) /\ metric(model, spec.metric).is_derived =>
         /\ Len(v_errors) = 1
         /\ v_errors[1].code = "DerivedMetric"
         /\ v_errors[1].list = metric(model, spec.metric).components

C4_Witness ==
  /\ core_pc = "validated"
  /\ HasMetric(model, spec.metric) /\ metric(model, spec.metric).is_derived
  /\ "weather" \in Range(spec.dimensions)
  /\ spec.time_grain = "quarter"
  /\ spec.limit > model.security.max_rows
  /\ \E i \in 1..Len(spec.filters) : ~spec.filters[i].is_list
  /\ Len(v_errors) = 1

\* The tables of the requested dimensions and filter keys, the base table excepted.
RequestedTables(sp, mdl) ==
  {t \in Tables :
     /\ t # metric(mdl, sp.metric).base_table
     /\ \E i \in DOMAIN mdl.dimensions :
          /\ mdl.dimensions[i].table = t
          /\ \/ mdl.dimensions[i].name \in Range(sp.dimensions)
             \/ \E k \in 1..Len(sp.filters) : sp.filters[k].key = mdl.dimensions[i].name}

OnlyKnownNames(sp, mdl) ==
  /\ \A i \in 1..Len(sp.dimensions) : HasDimension(mdl, sp.dimensions[i])
  /\ \A k \in 1..Len(sp.filters) : HasDimension(mdl, sp.filters[k].key)

JoinPathCodes == {"TableNotReachable", "NoJoinPath"}

\* every unconnected requested table is named by a join-path violation, and there
\* is no join-path violation when every requested table is connected
JoinViolationsExact(sp, mdl, errors) ==
  LET base == metric(mdl, sp.metric).base_table
      comp == Component(mdl.joins, base)
  IN /\ \A t \in RequestedTables(sp, mdl) \ comp :
          \E i \in 1..Len(errors) : errors[i].code \in JoinPathCodes /\ errors[i].name = t
     /\ RequestedTables(sp, mdl) \subseteq comp => Codes(errors) \cap JoinPathCodes = {}

\* C5 as stated: for a known non-derived metric and only known dimension and
\* filter-key names, every requested table without a join path from the base table
\* gets a violation naming it, and there is none when all are connected.
C5_AsStated ==
  core_pc \in {"validated", "generated", "audited"}
    /\ KnownMetric(spec, model) /\ OnlyKnownNames(spec, model) =>
      JoinViolationsExact(spec, model, v_errors)

GrainAllowed(sp, mdl) ==
  \/ sp.time_grain = None
  \/ /\ HasDimension(mdl, "date")
     /\ sp.time_grain \in Range(dimension(mdl, "date").grains)

\* C5 (amended): the same, for specs whose time_grain is unset or an allowed grain
\* of the date dimension, that is, when the naming checks found no error.
C5_JoinPathViolations ==
  core_pc \in {"validated", "generated", "audited"}
    /\ KnownMetric(spec, model) /\ OnlyKnownNames(spec, model)
    /\ GrainAllowed(spec, model) =>
      JoinViolationsExact(spec, model, v_errors)

C5_Witness ==
  /\ core_pc = "validated"
  /\ KnownMetric(spec, model) /\ OnlyKnownNames(spec, model) /\ GrainAllowed(spec, model)
  /\ spec.dimensions = <<"date">>
  /\ \E k \in 1..Len(spec.filters) : spec.filters[k].key = "country"
  /\ "dim_date" \in Component(model.joins, "fct_orders")
  /\ "dim_users" \notin Component(model.joins, "fct_orders")
  /\ \E i \in 1..Len(v_errors) :
       v_errors[i].code = "TableNotReachable" /\ v_errors[i].name = "dim_users"

\* the value of the LIMIT clause that ends a text
EndsWithLimit(text, n) ==
  LET len == Len(text)
  IN IF n >= 0
     THEN len >= 2 /\ text[len] = Num(n) /\ text[len - 1] = Word("LIMIT")
     ELSE len >= 3 /\ text[len] = Num(0 - n) /\ text[len - 1] = Sym("-")
            /\ text[len - 2] = Word("LIMIT")

\* C6: whenever generate_sql returns, the SQL has a LIMIT clause whose value is
\* min(spec.limit, security.max_rows), which never exceeds max_rows.
C6_LimitClamped ==
  core_pc \in {"generated", "audited"} /\ generated.raised = "" =>
    /\ EndsWithLimit(generated.sql, Min(spec.limit, model.security.max_rows))
    /\ ~\E n \in LimitChoices :
          n > model.security.max_rows /\ EndsWithLimit(generated.sql, n)

C6_Witness ==
  /\ core_pc = "generated"
  /\ generated.raised = ""
  /\ spec.limit = 9999
  /\ model.security.max_rows = 200
  /\ EndsWithLimit(generated.sql, 200)

Touches(edge, t) == edge.left = t \/ edge.right = t

\* C7: find_join_path(A, A) is the empty list; between tables that are not connected
\* it is None; between connected tables A # B it is a non-empty list of model edges
\* whose first edge has A as an endpoint and whose last edge has B as an endpoint.
C7_JoinPathShape ==
  path_pc = "done" =>
    /\ from_table = to_table => path = SomePath(<<>>)
    /\ from_table # to_table /\ to_table \notin Component(joins, from_table) => path = NoPath
    /\ from_table # to_table /\ to_table \in Component(joins, from_table) =>
         /\ path.found
         /\ path.edges # <<>>
         /\ Range(path.edges) \subseteq Range(joins)
         /\ Touches(path.edges[1], from_table)
         /\ Touches(path.edges[Len(path.edges)], to_table)

C7_Witness ==
  /\ path_pc = "done"
  /\ from_table # to_table
  /\ path.found
  /\ Len(path.edges) = 2
  /\ Len(joins) = 3

\* C8: tables_reachable_from(start) terminates, on every graph (cycles, self-loops
\* and parallel edges included), and returns exactly the connected component of
\* start in the undirected join graph, start included.
C8_ReachableIsComponent ==
  /\ [](reach_pc = "done" => visited = Component(joins, from_table))
  /\ <>(reach_pc = "done")

C8_Witness ==
  /\ reach_pc = "done"
  /\ Cardinality(visited) = 3
  /\ \E i \in 1..Len(joins) : joins[i].left = joins[i].right
  /\ \E i \in 1..Len(joins) : joins[i].right = from_table /\ joins[i].left # from_table

\* C9: generate_sql for a metric that is not in the model raises ValueError
\* (Unknown metric) and returns no SQL, whatever the other fields of the spec are.
C9_UnknownMetricRaises ==
  core_pc \in {"generated", "audited"} /\ ~HasMetric(model, spec.metric) =>
    /\ generated.raised = "ValueError: Unknown metric"
    /\ generated.sql = <<>>
    /\ core_pc = "generated"

C9_Witness ==
  /\ core_pc = "generated"
  /\ spec.metric = "nonexistent"
  /\ spec.dimensions # <<>>
  /\ spec.filters # <<>>
  /\ spec.time_range.kind = "last"
  /\ generated.raised = "ValueError: Unknown metric"

\* a document that lacks one of the five sections, or has a join without an alias
LacksRequiredData(doc) ==
  \/ doc.is_none
  \/ ~(Sections \subseteq doc.keys)
  \/ \E i \in 1..Len(doc.joins) : ~({"left_alias", "right_alias"} \subseteq doc.joins[i].keys)

\* C10: loading a document that lacks required data (one of the sections metrics,
\* dimensions, joins, security, allowed_tables, or the aliases of a join) fails
\* with an error and yields no SemanticModel.
C10_LoadFailsOnMissingData ==
  load_calls > 0 /\ LacksRequiredData(loaded.source) => loaded.error # ""

\* C11: for a fixed spec, model and date, repeated calls of validate_spec return
\* the same messages in the same order and repeated calls of generate_sql return
\* the same SQL text, JOIN clauses in the same order.
C11_Deterministic ==
  \A i, j \in 1..Len(history) :
    /\ history[i].fn = history[j].fn
    /\ history[i].spec = history[j].spec
    /\ history[i].model = history[j].model
    /\ history[i].today = history[j].today
    => history[i].out = history[j].out


\* where the first FROM of the statement stands, one past the end if there is none
FirstFromWord(text) ==
  LET at == FirstIndex(text, LAMBDA i : IsWord(text[i], "from"))
  IN IF at = 0 THEN Len(text) + 1 ELSE at

Parens(text, a, b, s) == Cardinality({k \in a..b : text[k] = Sym(s)})

\* position i lies between the parentheses of a COUNT/SUM/AVG/MIN/MAX call
InAggregateCall(text, i) ==
  \E j \in 1..(i - 1) :
    /\ text[j].k = "word" /\ Lower(text[j].a) \in AggregateWords
    /\ NextNonSpace(text, j) # 0
    /\ NextNonSpace(text, j) < i
    /\ text[NextNonSpace(text, j)] = Sym("(")
    /\ \A c \in NextNonSpace(text, j)..(i - 1) :
         Parens(text, NextNonSpace(text, j), c, "(") > Parens(text, NextNonSpace(text, j), c, ")")

\* position i holds column col as alias.col or as the output name of AS col
NamesColumn(text, i, col) ==
  \/ text[i].k = "ref" /\ Lower(text[i].b) = col
  \/ /\ IsWord(text[i], col)
     /\ \E a \in 1..(i - 1) : IsWord(text[a], "as") /\ NextNonSpace(text, a) = i

ExposedInProjection(text, col) ==
  \E i \in 1..(FirstFromWord(text) - 1) :
    NamesColumn(text, i, col) /\ ~InAggregateCall(text, i)

BlockedReported(errors, col) ==
  \E i \in 1..Len(errors) : errors[i].code = "BlockedColumn" /\ errors[i].name = col

\* C12: check_sql_safety reports a blocked column exactly when the column stands
\* in the projection, the text before the first FROM, as alias.col or AS col
\* outside every aggregate call; inside an aggregate call or after FROM it is
\* not reported.
C12_BlockedColumnExact ==
  core_pc = "audited" =>
    \A n \in 1..Len(model.security.blocked_columns) :
      LET col == model.security.blocked_columns[n]
      IN BlockedReported(s_errors, col) <=> ExposedInProjection(Strip(generated.sql), col)


\* C13: on every path on which ask() returns a result, the cache hit among them,
\* log_query has been called for that request before ask() returns.
C13_EveryCallLogged ==
  ask_pc = "returned" /\ ret.kind = "result" => Called("log_query")


\* C14: whatever earlier calls left in the query cache, ask(question, execute=False)
\* does not call the database executor and returns a result without rows.
C14_DryRunNoRows ==
  request # NoRequest /\ ~request.execute =>
    /\ ~Called("execute_readonly")
    /\ rows = <<>>
    /\ ask_pc = "returned" /\ ret.kind = "result" => heap[ret.ref].rows = <<>>

C14_Witness ==
  /\ ask_pc = "returned"
  /\ ret.kind = "result"
  /\ ~request.execute
  /\ executor_calls # <<>>
  /\ \E i \in 1..Len(cache_store) :
       /\ cache_store[i].key = _make_key(request.question, request.mode, TRUE)
       /\ now - cache_store[i].created_at <= cache_store[i].ttl
       /\ heap[cache_store[i].value].rows # <<>>


RoleDefined(defined, role) == \E i \in 1..Len(defined) : defined[i].name = role

RoleOf(defined, role) == defined[CHOOSE i \in 1..Len(defined) : defined[i].name = role]

MetricAllowed(r, metric_name) == r.wildcard_metrics \/ metric_name \in Range(r.allowed_metrics)

DimensionAllowed(r, dim) == r.wildcard_dimensions \/ dim \in Range(r.allowed_dimensions)

\* the requested dimensions the role may not see, one entry per request of it
Disallowed(r, dimensions) == SelectSeq(dimensions, LAMBDA d : ~DimensionAllowed(r, d))

\* C15: check_rbac returns no message exactly when the role is unset, or no roles
\* are defined, or the role is defined and allows the metric and every requested
\* dimension; an undefined role yields exactly one unknown-role message; a defined
\* role yields one message for a disallowed metric and one per disallowed
\* requested dimension.
C15_RbacMessages ==
  history # <<>> /\ history[1].fn = "check_rbac" =>
    LET c == history[1]
        enforced == c.role # None /\ c.roles # <<>>
        known == RoleDefined(c.roles, c.role)
    IN /\ rbac_errors = <<>> <=>
            \/ ~enforced
            \/ /\ known
               /\ MetricAllowed(RoleOf(c.roles, c.role), c.metric)
               /\ \A i \in 1..Len(c.dimensions) :
                    DimensionAllowed(RoleOf(c.roles, c.role), c.dimensions[i])
       /\ enforced /\ ~known =>
            Len(rbac_errors) = 1 /\ rbac_errors[1].code = "UnknownRole"
       /\ enforced /\ known =>
            LET r == RoleOf(c.roles, c.role)
                bad == Disallowed(r, c.dimensions)
                m == IF MetricAllowed(r, c.metric) THEN 0 ELSE 1
            IN /\ Len(rbac_errors) = m + Len(bad)
               /\ m = 1 => rbac_errors[1].code = "RoleMetric" /\ rbac_errors[1].name = c.metric
               /\ \A i \in 1..Len(bad) :
                    /\ rbac_errors[m + i].code = "RoleDimension"
                    /\ rbac_errors[m + i].name = bad[i]

\* marketing asking for revenue by category: a metric and a dimension message
C15_Witness ==
  /\ history # <<>> /\ history[1].fn = "check_rbac"
  /\ history[1].role = "marketing"
  /\ Len(rbac_errors) = 2
  /\ rbac_errors[1].code = "RoleMetric"
  /\ rbac_errors[2].code = "RoleDimension"


\* C16: the semantic model has no roles section (open mode); a call of ask() with a
\* non-empty role ends as the same call without a role ends: it returns with empty
\* rbac_errors, or raises what planning or SQL generation raise without a role, and
\* never fails on the role itself.
C16_OpenModeWithRole ==
  request # NoRequest /\ request.role # None /\ "roles" \notin DOMAIN model =>
    /\ rbac_errors = <<>>
    /\ ask_pc = "raised" => ret.exc \in {"RuntimeError", "ValueError"}


\* two calls name the same entry: the questions agree after strip and lower-casing,
\* and mode and execute agree
SameEntry(a, b) ==
  /\ LowerWords(StripWords(a.question)) = LowerWords(StripWords(b.question))
  /\ a.mode = b.mode
  /\ a.execute = b.execute

\* the most recent put for the entry the call names, if there was one
PutsFor(c) == {i \in 1..Len(last_put) : SameEntry(last_put[i].arg, c)}

LatestPut(c) == last_put[CHOOSE i \in PutsFor(c) : \A k \in PutsFor(c) : k <= i]

\* the get of thread t runs its body in this step
GetReturns(t) ==
  /\ threads[t].pc = "locked"
  /\ threads[t].op = "get"
  /\ threads'[t].pc = "done"

\* C17: a get returns the value of the most recent put for the same question (after
\* strip and lower-casing), mode and execute if that entry is at most ttl old and was
\* not invalidated or evicted since, and None otherwise; an entry older than ttl is
\* not returned and is gone from the store after the get that finds it.
C17_GetReturnsLatestLivePut ==
  [][\A t \in 1..MaxThreads :
       GetReturns(t) =>
         LET c == threads[t].arg
             fresh == /\ PutsFor(c) # {}
                      /\ ~LatestPut(c).gone
                      /\ now - LatestPut(c).time <= cache_cfg.ttl
         IN /\ threads'[t].ret = IF fresh THEN LatestPut(c).value ELSE 0
            /\ ~fresh =>
                 \A i \in 1..Len(cache_store') :
                   cache_store'[i].key # _make_key(c.question, c.mode, c.execute)]_vars

\* one thread has put "Revenue", the other got its value back for " revenue "
C17_Witness ==
  \E t, u \in 1..MaxThreads :
    /\ threads[t].pc = "done" /\ threads[t].op = "put"
    /\ threads[t].arg.question = <<"Revenue">>
    /\ threads[u].pc = "done" /\ threads[u].op = "get"
    /\ threads[u].arg.question = <<" ", "revenue", " ">>
    /\ threads[u].ret = threads[t].value
    /\ threads[u].ret # 0

\* C18: the cache never holds more than max_size entries, whatever the threads do.
C18_SizeBound == Len(cache_store) <= cache_cfg.max_size


\* the grains the model allows: those of its date dimension, none without one
AllowedGrains(mdl) ==
  IF HasDimension(mdl, "date") THEN Range(dimension(mdl, "date").grains) ELSE {}

\* C19: for a queryable metric, validate_spec reports an invalid grain when
\* time_grain is set and not among the date dimension's grains, whatever the model
\* (a date dimension without grains or no date dimension included) and the
\* requested dimensions; a grain among them is not reported.
C19_InvalidGrainReported ==
  core_pc = "validated" /\ KnownMetric(spec, model) =>
    /\ spec.time_grain # None /\ spec.time_grain \notin AllowedGrains(model) =>
         "InvalidGrain" \in Codes(v_errors)
    /\ spec.time_grain \in AllowedGrains(model) => "InvalidGrain" \notin Codes(v_errors)


\* the names of the metrics that can be queried: those not derived
QueryableNames(mdl) ==
  {mdl.metrics[i].name : i \in {k \in DOMAIN mdl.metrics : ~mdl.metrics[k].is_derived}}

\* C20: get_metric_names() gives exactly the names of the non-derived metrics; a
\* derived metric is found by model.metric(name) and is not in the list.
C20_NamesExcludeDerived ==
  history # <<>> /\ history[1].fn = "get_metric_names" =>
    /\ Range(names) = QueryableNames(loaded.value)
    /\ \A i \in DOMAIN loaded.value.metrics :
         loaded.value.metrics[i].is_derived =>
           /\ HasMetric(loaded.value, loaded.value.metrics[i].name)
           /\ loaded.value.metrics[i].name \notin Range(names)


\* the request is the test's question, planned by the mock planner, on a model that
\* has the metric and the dimension
AsksActiveUsersByCategory ==
  /\ request # NoRequest
  /\ LowerWords(request.question) = <<"active", "users", "by", "category", "last", "30", "days">>
  /\ request.mode = "mock"
  /\ HasMetric(model, "active_users")
  /\ HasDimension(model, "category")

\* C21: active_users by category is rejected at validation: ask() returns a result
\* that is not a success, with a validation error that says the dimension is not
\* allowed and names it, and with no SQL.
C21_DisallowedDimensionRejected ==
  AsksActiveUsersByCategory /\ ask_pc = "returned" /\ ret.kind = "result" =>
    LET result == heap[ret.ref]
    IN /\ ~success(result)
       /\ result.sql = <<>>
       /\ \E i \in 1..Len(result.validation_errors) :
            /\ result.validation_errors[i].code = "DimensionNotAllowed"
            /\ result.validation_errors[i].name = "category"


\* the tables within k edges of the tables of S in the undirected join graph
RECURSIVE Within(_, _, _)
Within(edges, S, k) ==
  IF k = 0 THEN S
  ELSE Within(edges, S \cup {t \in Tables : \E s \in S : Adjacent(edges, s, t)}, k - 1)

\* the least number of edges of a path from a to b, for connected a and b
MinEdges(edges, a, b) ==
  CHOOSE k \in 0..Cardinality(Tables) :
    /\ b \in Within(edges, {a}, k)
    /\ \A n \in 0..(k - 1) : b \notin Within(edges, {a}, n)

\* the list of edges is a walk along the given tables, one edge per step
WalksAlong(edges, tables) ==
  /\ Len(tables) = Len(edges) + 1
  /\ \A i \in 1..Len(edges) :
       \/ edges[i].left = tables[i] /\ edges[i].right = tables[i + 1]
       \/ edges[i].right = tables[i] /\ edges[i].left = tables[i + 1]

\* C22: for connected tables A # B, find_join_path(A, B) returns a list of as few
\* edges as any path between A and B in the undirected join graph has, and the list
\* is a walk from A to B that visits no table twice.
C22_ShortestPath ==
  path_pc = "done" /\ from_table # to_table /\ to_table \in Component(joins, from_table) =>
    /\ path.found
    /\ Len(path.edges) = MinEdges(joins, from_table, to_table)
    /\ \E tables \in [1..(Len(path.edges) + 1) -> Tables] :
         /\ tables[1] = from_table
         /\ tables[Len(tables)] = to_table
         /\ WalksAlong(path.edges, tables)
         /\ \A i, k \in 1..Len(tables) : i # k => tables[i] # tables[k]

\* a direct edge declared after a detour of two edges: the direct edge is returned
C22_Witness ==
  /\ path_pc = "done"
  /\ from_table # to_table
  /\ Len(joins) = 3
  /\ Touches(joins[1], from_table) /\ ~Touches(joins[1], to_table)
  /\ Touches(joins[2], to_table) /\ ~Touches(joins[2], from_table)
  /\ Touches(joins[3], from_table) /\ Touches(joins[3], to_table)
  /\ path = SomePath(<<joins[3]>>)


\* the value of a filter is not a non-empty list of non-blank strings
Malformed(f) ==
  \/ ~f.is_list
  \/ f.vals = <<>>
  \/ \E k \in 1..Len(f.vals) : ~f.vals[k].is_str \/ IsBlank(f.vals[k].toks)

FilterValueCodes == {"FilterNotList", "FilterEmpty", "FilterBadValue"}

\* the filter-value messages that name the key
ValueMessages(errors, key) ==
  {i \in 1..Len(errors) : errors[i].code \in FilterValueCodes /\ errors[i].name = key}

NamingCodes == {"UnknownDimension", "UnknownFilterKey", "InvalidGrain"}

\* C23: for a known, non-derived metric validate_spec reports a limit above max_rows
\* and every malformed filter value list, whether or not the dimension, filter-key
\* or grain checks found errors.
C23_LaterChecksAlwaysRun ==
  core_pc \in {"validated", "generated", "audited"} /\ KnownMetric(spec, model) =>
    /\ spec.limit > model.security.max_rows => "LimitExceeded" \in Codes(v_errors)
    /\ \A i \in 1..Len(spec.filters) :
         Malformed(spec.filters[i]) => ValueMessages(v_errors, spec.filters[i].key) # {}


\* the spec gets as far as the filter-value check: the metric is queryable and the
\* naming checks found nothing
ReachesValueCheck ==
  /\ core_pc \in {"validated", "generated", "audited"}
  /\ KnownMetric(spec, model)
  /\ Codes(v_errors) \cap NamingCodes = {}

\* C24: validate_spec gives exactly one filter-value message per malformed filter,
\* however many bad values its list holds, and none for a well-formed filter.
C24_OneMessagePerFilter ==
  ReachesValueCheck =>
    \A i \in 1..Len(spec.filters) :
      Cardinality(ValueMessages(v_errors, spec.filters[i].key))
        = IF Malformed(spec.filters[i]) THEN 1 ELSE 0


\* a date known by year, month and day, or by its ordinal, is not after the other
NotAfter(a, b) ==
  IF a.y # 0
  THEN a.y < b.y \/ (a.y = b.y /\ (a.m < b.m \/ (a.m = b.m /\ a.d <= b.d)))
  ELSE a.ord <= b.ord

\* the month n months before the month of the day, counted in months since year 0
MonthBefore(day, n) ==
  LET months == day.y * 12 + (day.m - 1) - n
  IN [year |-> months \div 12, month |-> (months % 12) + 1]

\* C25: _resolve_time_range never raises: it returns None or a pair (start, today)
\* with start <= today; for `last N months` start is day 1 of the month N months
\* before the current one, for `last N years` 1 January of the year N years back.
C25_ResolveNeverRaises ==
  history # <<>> /\ history[1].fn = "_resolve_time_range" =>
    LET c == history[1]
    IN /\ c.out.status \in {"none", "range"}
       /\ c.out.status = "range" =>
            /\ c.out.end = c.today
            /\ NotAfter(c.out.start, c.today)
       /\ c.time_range.kind = "last" /\ c.time_range.unit = "month" =>
            /\ c.out.status = "range"
            /\ c.out.start.y = MonthBefore(c.today, c.time_range.n).year
            /\ c.out.start.m = MonthBefore(c.today, c.time_range.n).month
            /\ c.out.start.d = 1
       /\ c.time_range.kind = "last" /\ c.time_range.unit = "year" =>
            /\ c.out.status = "range"
            /\ c.out.start.y = c.today.y - c.time_range.n
            /\ c.out.start.m = 1
            /\ c.out.start.d = 1


\* the tables whose columns the generated text names: of the requested dimensions,
\* of the filter keys, and of the date column when the time range resolves
ReferencedTables ==
  {dimension(model, d).table :
     d \in {x \in Range(spec.dimensions) \cup {f.key : f \in Range(spec.filters)}
                  \cup (IF _resolve_time_range(spec.time_range, today).status = "range"
                        THEN {"date"} ELSE {}) :
              HasDimension(model, x)}}

\* C26: for every spec validate_spec accepts, generate_sql skips no table for want
\* of a join path, and the table of every requested dimension, of every filter key
\* and of the date column of the time-range bounds is the base table or the target
\* of an emitted JOIN.
C26_AcceptedSpecFullyJoined ==
  core_pc \in {"generated", "audited"} /\ v_errors = <<>> =>
    /\ generated.joins.skipped = {}
    /\ ReferencedTables \subseteq generated.joins.joined

\* C27: for every join list and pair of tables, to_table is in
\* tables_reachable_from(from_table) exactly when find_join_path(from_table,
\* to_table) returns a path, so the branch of validate_spec that reports a reachable
\* table without a join path is never taken.
C27_ReachableIffPath ==
  reach_pc = "done" /\ path_pc = "done" => (to_table \in visited <=> path.found)

C27_Witness ==
  /\ reach_pc = "done"
  /\ path_pc = "done"
  /\ from_table # to_table
  /\ to_table \in visited
  /\ Len(path.edges) >= 2

\* the tables joined before the i-th edge of the join list is emitted
JoinedBefore(i) ==
  {metric(model, spec.metric).base_table} \cup {generated.joins.targets[k] : k \in 1..(i - 1)}

\* C28: the join edges generate_sql accumulates form a tree rooted at the metric's
\* base table: emitted in list order every edge has exactly one endpoint already
\* joined, so neither the 'neither side joined' nor the 'both sides joined' branch
\* is taken, no edge occurs twice, and every table is the target of at most one
\* JOIN clause.
C28_JoinTree ==
  core_pc \in {"generated", "audited"} /\ HasMetric(model, spec.metric) =>
    LET j == generated.joins
    IN /\ ~j.neither
       /\ ~j.both
       /\ Len(j.targets) = Len(j.used)
       /\ Len(j.clauses) = Len(j.used)
       /\ \A a, b \in 1..Len(j.used) : a # b => j.used[a] # j.used[b]
       /\ \A a, b \in 1..Len(j.targets) : a # b => j.targets[a] # j.targets[b]
       /\ \A i \in 1..Len(j.used) :
            /\ (j.used[i].left \in JoinedBefore(i)) # (j.used[i].right \in JoinedBefore(i))
            /\ j.targets[i] \in {j.used[i].left, j.used[i].right} \ JoinedBefore(i)

C28_Witness ==
  /\ core_pc = "generated"
  /\ generated.raised = ""
  /\ Len(generated.joins.used) = 2
  /\ metric(model, spec.metric).base_table
       \notin {generated.joins.used[2].left, generated.joins.used[2].right}
  /\ generated.joins.targets[1] = generated.joins.used[1].left

\* the result object the finished call returned
ReturnedResult == heap[ret.ref]

\* the role of the request may not see the metric or a dimension of the returned
\* result's spec, by the roles of the RBAC tests (finance, marketing, analyst)
RoleLacksAccess ==
  check_rbac(request.role, ReturnedResult.spec.metric, ReturnedResult.spec.dimensions,
             SampleRoles) # <<>>

\* C29: a call of ask() whose role has no access to the planned metric or to a
\* planned dimension returns no data rows, whatever calls were answered before it
\* and whatever the query cache holds.
C29_NoRbacBypassViaCache ==
  ask_pc = "returned" /\ ret.kind = "result" /\ request.role # None /\ RoleLacksAccess =>
    ReturnedResult.rows = <<>>

\* C30: a CopilotResult that a call of ask() has returned is never changed by a
\* later call: its fields, the cached flag among them, keep the values they had
\* when it was returned, also when later calls are answered from the cache.
C30_ReturnedResultsUnchanged ==
  [][\A i \in 1..Len(heap) : Len(heap') >= i /\ heap'[i] = heap[i]]_vars

====
